---- MODULE Spec2Model ----
(***************************************************************************)
(* A model of the Ngaro virtual machine of db47h/ngaro: the execution      *)
(* engine (vm/core.go), the default port handlers (vm/io.go) and the input *)
(* stack (vm/io_helpers.go).                                               *)
(*                                                                         *)
(* The machine is held in a record m whose fields are the fields of        *)
(* vm.Instance; the methods of Instance are operators from records to      *)
(* records.  A Go run-time panic is the field m.panic: once it is set the  *)
(* rest of the instruction is skipped, as the unwinding does in Go, and    *)
(* what was assigned before the panic stays assigned.                      *)
(***************************************************************************)
EXTENDS Integers, Sequences, FiniteSets, TLC

(***************************************************************************)
(* Bounds of the model.                                                    *)
(***************************************************************************)
\* Width of a Cell.  The source uses int32; TLC's integers are 32 bits wide,
\* so the model runs the same two's-complement arithmetic on a narrower cell.
CellBits == 20
\* len(i.data) and len(i.address): the slices New allocates (1024+ in the
\* source, a handful of cells here so that a program can fill them).
dataLen == 8
addressLen == 4
\* len(i.Ports): portCount is 1024 in the source.
portCount == 10
\* Run is cut after this many instructions (the source counts without limit).
MaxIns == 90
\* Number of readers the embedder pushes on the input stack before Run.
MaxInputs == 3
\* Number of ports with a WAIT handler that are nonzero when a run starts
\* on a wait instruction.
MaxBusy == 2
\* Number of times the embedder calls Run on one instance.
MaxRuns == 2
\* items pushed on each stack before an option is set, option calls made
MaxPushed == 3
MaxCalls == 2
\* image files: cells of a saved image, free cells Load adds after the
\* file's cells, bytes of a bufio.Writer's buffer
MaxCells == 2
FreeCells == 2
BufSize == 6
\* strings: cells of the slice a string is stored in, bytes of a string
MemLen == 5
MaxStr == 3
\* the assembler: tokens of a source text, entries of an ErrAsm after which
\* the parser gives up, instructions run from an assembled image
MaxToks == 5
maxErrors == 3
MaxSteps == 36
\* the width Load and Save take for cellBits = 0
NativeBits == 64

(***************************************************************************)
(* Cell arithmetic: Go's fixed-width signed integers.                      *)
(***************************************************************************)
RECURSIVE Pow2(_)
Pow2(n) == IF n = 0 THEN 1 ELSE 2 * Pow2(n - 1)

CellMod == Pow2(CellBits)
MinCell == -Pow2(CellBits - 1)
MaxCell == Pow2(CellBits - 1) - 1

\* conversion of an integer to Cell: keep the low CellBits bits
Wrap(x) == ((x - MinCell) % CellMod) + MinCell
\* the unsigned value of the same bits
Unsigned(x) == x % CellMod

Abs(x) == IF x < 0 THEN -x ELSE x

RECURSIVE MulU(_, _)
MulU(a, n) ==
    IF n = 0 THEN 0
    ELSE Wrap((IF n % 2 = 1 THEN a ELSE 0) + Wrap(2 * MulU(a, n \div 2)))
\* i.Tos *= rhs
Mul(a, b) == MulU(a, Unsigned(b))

\* Go's / and % truncate toward zero
Quo(a, b) == Wrap((IF (a < 0) = (b < 0) THEN 1 ELSE -1) * (Abs(a) \div Abs(b)))
Rem(a, b) == (IF a < 0 THEN -1 ELSE 1) * (Abs(a) % Abs(b))

RECURSIVE BitOp(_, _, _)
BitOp(op, a, b) ==
    IF a = 0 /\ b = 0 THEN 0
    ELSE LET x == a % 2
             y == b % 2
             bit == CASE op = "and" -> x * y
                      [] op = "or"  -> IF x + y > 0 THEN 1 ELSE 0
                      [] OTHER      -> (x + y) % 2
         IN bit + 2 * BitOp(op, a \div 2, b \div 2)
And(a, b) == Wrap(BitOp("and", Unsigned(a), Unsigned(b)))
Or(a, b)  == Wrap(BitOp("or", Unsigned(a), Unsigned(b)))
Xor(a, b) == Wrap(BitOp("xor", Unsigned(a), Unsigned(b)))

\* uint8(rhs): the low byte of the shift count
Uint8(x) == Unsigned(x) % 256
RECURSIVE ShlN(_, _)
ShlN(a, n) == IF n = 0 THEN a ELSE ShlN(Wrap(2 * a), n - 1)
Shl(a, rhs) == IF Uint8(rhs) >= CellBits THEN 0 ELSE ShlN(a, Uint8(rhs))
RECURSIVE ShrN(_, _)
ShrN(a, n) == IF n = 0 THEN a ELSE ShrN(a \div 2, n - 1)
Shr(a, rhs) ==
    IF Uint8(rhs) >= CellBits THEN (IF a < 0 THEN -1 ELSE 0) ELSE ShrN(a, Uint8(rhs))

(***************************************************************************)
(* Opcodes (vm/core.go, const block).                                      *)
(***************************************************************************)
OpNop == 0
OpLit == 1
OpDup == 2
OpDrop == 3
OpSwap == 4
OpPush == 5
OpPop == 6
OpLoop == 7
OpJump == 8
OpReturn == 9
OpGtJump == 10
OpLtJump == 11
OpNeJump == 12
OpEqJump == 13
OpFetch == 14
OpStore == 15
OpAdd == 16
OpSub == 17
OpMul == 18
OpDimod == 19
OpAnd == 20
OpOr == 21
OpXor == 22
OpShl == 23
OpShr == 24
OpZeroExit == 25
OpInc == 26
OpDec == 27
OpIn == 28
OpOut == 29
OpWait == 30

\* utf8.RuneError
RuneError == 65533

(***************************************************************************)
(* Slices.  Image is a sequence read at Go's 0-based index; data, address  *)
(* and Ports are functions over 0..len-1.                                  *)
(***************************************************************************)
InImage(m, a) == a >= 0 /\ a < Len(m.Image)
ImageAt(m, a) == m.Image[a + 1]
InData(a) == a >= 0 /\ a < dataLen
InAddress(a) == a >= 0 /\ a < addressLen
InPorts(a) == a >= 0 /\ a < portCount

Panic(m, what) == [m EXCEPT !.panic = what]
Ok(m) == m.panic = "" /\ m.ret = ""

(***************************************************************************)
(* Stack methods of Instance (vm/core.go).                                 *)
(***************************************************************************)
\* func (i *Instance) Nos() Cell
Nos(m) == m.data[m.sp]

\* func (i *Instance) Depth() int
Depth(m) == m.sp

\* Drop without the test of i.sp: the pointer goes below 0
Drop_unguarded(m) ==
    IF ~Ok(m) THEN m
    ELSE IF ~InData(m.sp) THEN Panic(m, "index")
    ELSE [m EXCEPT !.Tos = m.data[m.sp], !.sp = m.sp - 1]

\* func (i *Instance) Drop()
Drop(m) ==
    IF ~Ok(m) THEN m
    ELSE IF ~InData(m.sp) THEN Panic(m, "index")
    ELSE [m EXCEPT !.Tos = m.data[m.sp],
                   !.sp = IF m.sp # 0 THEN m.sp - 1 ELSE m.sp]

\* func (i *Instance) Drop2()
Drop2(m) ==
    IF ~Ok(m) THEN m
    ELSE LET s == IF m.sp - 2 < 0 THEN 0 ELSE m.sp - 2
         IN IF ~InData(s + 1) THEN Panic([m EXCEPT !.sp = s], "index")
            ELSE [m EXCEPT !.sp = s, !.Tos = m.data[s + 1]]

\* func (i *Instance) Push(v Cell): i.sp++ comes first and stays when the
\* indexing panics
Push(m, v) ==
    IF ~Ok(m) THEN m
    ELSE LET s == m.sp + 1
         IN IF ~InData(s) THEN Panic([m EXCEPT !.sp = s], "index")
            ELSE [m EXCEPT !.sp = s, !.data[s] = m.Tos, !.Tos = v]

\* func (i *Instance) Pop() Cell: the new machine; the value returned is the
\* old m.Tos
Pop(m) ==
    IF ~Ok(m) THEN m
    ELSE IF ~InData(m.sp) THEN Panic(m, "index")
    ELSE [m EXCEPT !.Tos = m.data[m.sp],
                   !.sp = IF m.sp # 0 THEN m.sp - 1 ELSE m.sp]

\* func (i *Instance) Rpush(v Cell)
Rpush(m, v) ==
    IF ~Ok(m) THEN m
    ELSE LET s == m.rsp + 1
         IN IF ~InAddress(s) THEN Panic([m EXCEPT !.rsp = s], "index")
            ELSE [m EXCEPT !.rsp = s, !.address[s] = m.rtos, !.rtos = v]

\* Rpop without the test of i.rsp: the pointer goes below 0
Rpop_unguarded(m) ==
    IF ~Ok(m) THEN m
    ELSE IF ~InAddress(m.rsp) THEN Panic(m, "index")
    ELSE [m EXCEPT !.rtos = m.address[m.rsp], !.rsp = m.rsp - 1]

\* func (i *Instance) Rpop() Cell: the new machine; the value returned is the
\* old m.rtos
Rpop(m) ==
    IF ~Ok(m) THEN m
    ELSE IF ~InAddress(m.rsp) THEN Panic(m, "index")
    ELSE [m EXCEPT !.rtos = m.address[m.rsp],
                   !.rsp = IF m.rsp # 0 THEN m.rsp - 1 ELSE m.rsp]

(***************************************************************************)
(* The input stack (vm/io_helpers.go, vm/io.go PushInput).  A source is    *)
(* the sequence of runes it has still to deliver.  i.input is nil, a       *)
(* single reader, or a *multiRuneReader holding the slice readers.         *)
(***************************************************************************)
NilInput == [kind |-> "nil", readers |-> << >>]

\* ReadRune of one in-memory source: <<rune, size, err, rest>>
srcReadRune(s) ==
    IF s = << >> THEN <<0, 0, "EOF", s>> ELSE <<Head(s), 1, "", Tail(s)>>

\* func (mr *multiRuneReader) ReadRune(): <<rune, size, err, readers>>.  An
\* exhausted reader is discarded (and closed) and the next one is read.
RECURSIVE mrReadRune(_)
mrReadRune(readers) ==
    IF Len(readers) = 0 THEN <<0, 0, "EOF", readers>>
    ELSE LET r == srcReadRune(readers[1])
         IN IF r[2] > 0 \/ r[3] # "EOF"
            THEN <<r[1], r[2], "", <<r[4]>> \o Tail(readers)>>
            ELSE mrReadRune(Tail(readers))

\* pushReader appending the new reader after the older ones
pushReader_append(readers, r) == Append(readers, r)

\* func (mr *multiRuneReader) pushReader(r io.Reader)
pushReader(readers, r) == <<r>> \o readers

\* func (i *Instance) PushInput(r io.Reader), on the value of i.input
PushInput(in, r) ==
    CASE in.kind = "nil"   -> [kind |-> "single", readers |-> <<r>>]
      [] in.kind = "multi" -> [kind |-> "multi", readers |-> pushReader(in.readers, r)]
      [] OTHER             -> [kind |-> "multi", readers |-> <<r>> \o in.readers]

\* i.input.ReadRune() for a non-nil i.input: <<rune, size, err, input>>
inputReadRune(in) ==
    IF in.kind = "single"
    THEN LET r == srcReadRune(in.readers[1])
         IN <<r[1], r[2], r[3], [in EXCEPT !.readers = <<r[4]>>]>>
    ELSE LET r == mrReadRune(in.readers)
         IN <<r[1], r[2], r[3], [in EXCEPT !.readers = r[4]]>>

(***************************************************************************)
(* Image strings (Image.DecodeString, Image.EncodeString).                 *)
(***************************************************************************)
\* the end index DecodeString's loop stops at, from index e
RECURSIVE decodeEnd(_, _)
decodeEnd(m, e) ==
    IF e < Len(m.Image) /\ ImageAt(m, e) # 0 THEN decodeEnd(m, e + 1) ELSE e

\* func (i Image) DecodeString(start Cell) string: TRUE when it panics
\* (i[end] with a negative index, or i[pos:end] with pos beyond the slice)
DecodeStringPanics(m, start) == start < 0 \/ start > Len(m.Image)

\* the bytes DecodeString returns when it does not panic
DecodeString(m, start) ==
    [k \in 1..(decodeEnd(m, start) - start) |-> ImageAt(m, start + k - 1) % 256]

\* func (i Image) EncodeString(start Cell, s string): the cells are written
\* one by one until an index is out of range, then the terminating zero
RECURSIVE EncodeString(_, _, _)
EncodeString(m, pos, s) ==
    IF ~Ok(m) THEN m
    ELSE IF ~InImage(m, pos) THEN Panic(m, "index")
    ELSE IF s = << >> THEN [m EXCEPT !.Image[pos + 1] = 0]
    ELSE EncodeString([m EXCEPT !.Image[pos + 1] = Head(s)], pos + 1, Tail(s))

(***************************************************************************)
(* Default port handlers (vm/io.go).                                       *)
(***************************************************************************)
\* func (i *Instance) In(port Cell) error
In(m, port) ==
    LET m1 == Push(m, IF InPorts(port) THEN m.Ports[port] ELSE 0)
    IN IF ~InPorts(port) THEN Panic(m, "index")
       ELSE IF ~Ok(m1) THEN m1
       ELSE [m1 EXCEPT !.Ports[port] = 0]

\* func (i *Instance) Out(v, port Cell) error.  env.ioErr: the terminal's
\* Flush fails.
\* Out storing the value in port 3 as in any other port
Out_storePort3(m, v, port, env) ==
    IF ~Ok(m) THEN m
    ELSE IF ~InPorts(port) THEN Panic(m, "index")
    ELSE IF port = 3 /\ m.output /\ env.ioErr
    THEN [m EXCEPT !.ret = "flush", !.Ports[port] = v]
    ELSE [m EXCEPT !.Ports[port] = v]

Out(m, v, port, env) ==
    IF ~Ok(m) THEN m
    ELSE IF port = 3
    THEN IF ~m.output THEN m
         ELSE IF env.ioErr THEN [m EXCEPT !.ret = "flush"] ELSE m
    ELSE IF ~InPorts(port) THEN Panic(m, "index")
    ELSE [m EXCEPT !.Ports[port] = v]

\* func (i *Instance) WaitReply(v, port Cell)
WaitReply(m, v, port) ==
    IF ~Ok(m) THEN m ELSE [m EXCEPT !.Ports[port] = v, !.Ports[0] = 1]

\* What the terminal i.output received: one record per call.
Emit(m, k, a, b) == [m EXCEPT !.outbuf = Append(m.outbuf, [k |-> k, a |-> a, b |-> b])]

\* func (i Image) Save(fileName string, shrink bool) error, as Wait uses it:
\* the error is dropped; the slicing i[0:i[3]] panics on a bad HERE cell.
Save(m, env) ==
    IF env.ioErr THEN m
    ELSE IF ~m.shrink THEN [m EXCEPT !.saves = m.saves + 1]
    ELSE IF ~InImage(m, 3) THEN Panic(m, "index")
    ELSE IF ImageAt(m, 3) < 0 \/ ImageAt(m, 3) > Len(m.Image) THEN Panic(m, "index")
    ELSE [m EXCEPT !.saves = m.saves + 1]

\* case 1 of Wait without the return of the reader's error
WaitInput_noReturn(m, v) ==
    IF v # 1 THEN m
    ELSE IF m.input.kind = "nil" THEN [m EXCEPT !.ret = "EOF"]
    ELSE LET r == inputReadRune(m.input)
             m1 == [m EXCEPT !.input = r[4]]
         IN IF r[2] > 0
            THEN [WaitReply(m1, r[1], 1) EXCEPT !.delivered = Append(m.delivered, r[1])]
            ELSE WaitReply(m1, RuneError, 1)

\* case 1 of Wait: input
WaitInput(m, v) ==
    IF v # 1 THEN m
    ELSE IF m.input.kind = "nil" THEN [m EXCEPT !.ret = "EOF"]
    ELSE LET r == inputReadRune(m.input)
             m1 == [m EXCEPT !.input = r[4]]
         IN IF r[2] > 0
            THEN [WaitReply(m1, r[1], 1) EXCEPT !.delivered = Append(m.delivered, r[1])]
            ELSE LET m2 == WaitReply(m1, RuneError, 1)
                 IN IF r[3] # "" THEN [m2 EXCEPT !.ret = r[3]] ELSE m2

\* case 2 of Wait answering only when an output is configured
WaitOutput_noAck(m, v, env) ==
    IF v # 1 THEN m
    ELSE LET r == m.Tos
             m1 == Pop(m)
         IN IF ~Ok(m1) THEN m1
            ELSE IF ~m.output THEN m1
            ELSE IF r < 0 THEN WaitReply(Emit(m1, "clear", 0, 0), 0, 2)
            ELSE IF env.ioErr THEN [m1 EXCEPT !.ret = "write"]
            ELSE WaitReply(Emit(m1, "rune", r, 0), 0, 2)

\* case 2 of Wait: output
WaitOutput(m, v, env) ==
    IF v # 1 THEN m
    ELSE LET r == m.Tos
             m1 == Pop(m)
         IN IF ~Ok(m1) THEN m1
            ELSE IF ~m.output THEN WaitReply(m1, 0, 2)
            ELSE IF r < 0 THEN WaitReply(Emit(m1, "clear", 0, 0), 0, 2)
            ELSE IF env.ioErr THEN [m1 EXCEPT !.ret = "write"]
            ELSE WaitReply(Emit(m1, "rune", r, 0), 0, 2)

\* case 4 of Wait: file I/O
WaitFile(m, v, env) ==
    LET m0 == [m EXCEPT !.Ports[0] = 1]
    IN CASE v = 1 ->
              LET m1 == Save(m0, env)
              IN IF ~Ok(m1) THEN m1 ELSE [m1 EXCEPT !.Ports[4] = 0]
         [] v = 2 ->
              LET m1 == [m0 EXCEPT !.Ports[4] = 0]
                  name == m1.Tos
                  m2 == Pop(m1)
              IN IF ~Ok(m2) THEN m2
                 ELSE IF DecodeStringPanics(m2, name) THEN Panic(m2, "index")
                 ELSE IF env.open = "fail" THEN [m2 EXCEPT !.ret = "open"]
                 ELSE [m2 EXCEPT !.input = PushInput(m2.input, env.file),
                                 !.pushed = Append(m2.pushed,
                                     [src |-> env.file, at |-> Len(m2.delivered)])]
         [] OTHER -> [m0 EXCEPT !.Ports[4] = 0]

\* selector -10 of port 5: environment query
WaitGetenv(m, env) ==
    IF ~InData(m.sp) \/ ~InData(m.sp - 1) THEN Panic(m, "index")
    ELSE LET src == m.data[m.sp]
             dst == m.data[m.sp - 1]
             m1 == [m EXCEPT !.sp = m.sp - 2]
         IN IF DecodeStringPanics(m1, src) THEN Panic(m1, "index")
            ELSE LET m2 == EncodeString(m1, dst, env.getenv)
                 IN IF ~Ok(m2) THEN m2 ELSE [m2 EXCEPT !.Ports[5] = 0]

\* DataSize(size) applied to stacks of lengths l: a larger stack is built in
\* the local t, which is never stored in i.data
DataSize(l, size) ==
    IF size <= l.data THEN [l EXCEPT !.data = size] ELSE l

\* AddressSize(size): the shrinking branch stores the slice in i.data
AddressSize(l, size) ==
    IF size <= l.address THEN [l EXCEPT !.data = size] ELSE l

\* len(i.data) and len(i.address) as New leaves them: the options run on nil
\* stacks, then a stack that is still nil gets the default size (size 0 in
\* the options stands for an option not given)
NewStacks(o) ==
    LET l0 == [data |-> 0, address |-> 0]
        l1 == IF o.dsize # 0 THEN DataSize(l0, o.dsize) ELSE l0
        l2 == IF o.asize # 0 THEN AddressSize(l1, o.asize) ELSE l1
    IN [data |-> IF l2.data = 0 THEN dataLen ELSE l2.data,
        address |-> IF l2.address = 0 THEN addressLen ELSE l2.address]

\* selector -9 setting PC to len(i.Image) itself
WaitCaps_exitAtLen(m, env) ==
    IF m.Ports[5] = -9
    THEN [m EXCEPT !.Ports[5] = 0, !.Ports[0] = 1, !.PC = Len(m.Image)]
    ELSE [m EXCEPT !.Ports[5] = 0, !.Ports[0] = 1]

\* case 5 of Wait: VM capabilities
WaitCaps(m, env) ==
    LET sel == m.Ports[5]
        set(x) == [m EXCEPT !.Ports[5] = x, !.Ports[0] = 1]
    IN IF sel = 0 THEN m
       ELSE CASE sel = -1  -> set(Wrap(Len(m.Image)))
              [] sel = -5  -> set(Wrap(m.sp + 1))
              [] sel = -6  -> set(Wrap(m.rsp + 1))
              [] sel = -8  -> set(Wrap(env.now))
              [] sel = -9  -> [set(0) EXCEPT !.PC = Len(m.Image) - 1]
              [] sel = -10 -> LET m1 == WaitGetenv(m, env)
                              IN IF ~Ok(m1) THEN m1 ELSE [m1 EXCEPT !.Ports[0] = 1]
              [] sel = -11 -> set(IF m.output THEN env.width ELSE 0)
              [] sel = -12 -> set(IF m.output THEN env.height ELSE 0)
              [] sel = -13 -> set(CellBits)
              [] sel = -15 -> set(IF m.output THEN -1 ELSE 0)
              [] sel = -16 -> set(Wrap(NewStacks(m.opts).data))
              [] sel = -17 -> set(Wrap(NewStacks(m.opts).address))
              [] OTHER     -> set(0)

\* case 8 of Wait: extended terminal
WaitTerm(m) ==
    LET v == m.Ports[8]
    IN IF v = 0 \/ ~m.output THEN m
       ELSE CASE v = 1 ->
                   IF ~InData(m.sp - 1) \/ ~InData(m.sp) THEN Panic(m, "index")
                   ELSE WaitReply([Emit(m, "pos", m.data[m.sp - 1], m.data[m.sp])
                                      EXCEPT !.sp = m.sp - 2], 0, 8)
              [] v = 2 -> LET m1 == Pop(m)
                          IN IF ~Ok(m1) THEN m1 ELSE WaitReply(Emit(m1, "fg", m.Tos, 0), 0, 8)
              [] v = 3 -> LET m1 == Pop(m)
                          IN IF ~Ok(m1) THEN m1 ELSE WaitReply(Emit(m1, "bg", m.Tos, 0), 0, 8)
              [] OTHER -> WaitReply(m, 0, 8)

\* func (i *Instance) Wait(v, port Cell) error: the default WAIT handler
Wait(m, v, port, env) ==
    IF ~Ok(m) \/ v = 0 THEN m
    ELSE CASE port = 1 -> WaitInput(m, v)
           [] port = 2 -> WaitOutput(m, v, env)
           [] port = 4 -> WaitFile(m, v, env)
           [] port = 5 -> WaitCaps(m, env)
           [] port = 8 -> WaitTerm(m)
           [] OTHER    -> m

(***************************************************************************)
(* One iteration of the loop of Instance.Run (vm/core.go).                 *)
(***************************************************************************)
\* the ports with a WaitHandler: New binds Instance.Wait to these
waitH == {1, 2, 4, 5, 8}

HasArg(m) == InImage(m, m.PC + 1)
Arg(m) == ImageAt(m, m.PC + 1)
Advance(m, n) == IF ~Ok(m) THEN m ELSE [m EXCEPT !.PC = m.PC + n]
\* i.PC = int(i.Image[i.PC+1])
JumpArg(m) ==
    IF ~Ok(m) THEN m
    ELSE IF ~HasArg(m) THEN Panic(m, "index") ELSE [m EXCEPT !.PC = Arg(m)]

\* the for loop after an implicit call: skip the nops at the landing address
RECURSIVE SkipNops(_, _)
SkipNops(m, pc) ==
    IF pc < Len(m.Image) /\ pc >= 0 /\ ImageAt(m, pc) = OpNop
    THEN SkipNops(m, pc + 1)
    ELSE pc

\* the implicit call without the loop over the nops
ImplicitCall_noSkip(m, op) ==
    LET s == m.rsp + 1
    IN IF ~InAddress(s) THEN Panic([m EXCEPT !.rsp = s], "index")
       ELSE [m EXCEPT !.rsp = s, !.address[s] = m.rtos,
                      !.rtos = Wrap(m.PC), !.PC = op]

\* default branch of the switch, op >= 0: implicit call
ImplicitCall(m, op) ==
    LET s == m.rsp + 1
    IN IF ~InAddress(s) THEN Panic([m EXCEPT !.rsp = s], "index")
       ELSE LET m1 == [m EXCEPT !.rsp = s, !.address[s] = m.rtos,
                                !.rtos = Wrap(m.PC), !.PC = op]
            IN [m1 EXCEPT !.PC = SkipNops(m1, op)]

\* the four conditional jumps: rel is the relation between NOS and TOS
\* the conditional jumps with the two branches exchanged
CondJump_inverted(m, rel) ==
    IF ~InData(m.sp) THEN Panic(m, "index")
    ELSE Drop2(IF ~rel THEN JumpArg(m) ELSE Advance(m, 2))

CondJump(m, rel) ==
    IF ~InData(m.sp) THEN Panic(m, "index")
    ELSE Drop2(IF rel THEN JumpArg(m) ELSE Advance(m, 2))

\* the binary operators: rhs := i.Pop(); i.Tos op= rhs, v the new i.Tos
Binary(m, v) ==
    LET m1 == Pop(m)
    IN IF ~Ok(m1) THEN m1 ELSE Advance([m1 EXCEPT !.Tos = v], 1)
\* the left operand: i.Tos once rhs has been popped
Lhs(m) == Pop(m).Tos

Add(a, b) == Wrap(a + b)
Sub(a, b) == Wrap(a - b)

\* case OpWait: one handler call of the range loop over i.waitH
WaitVisit(m, p, env) ==
    IF ~Ok(m) \/ m.Ports[p] = 0 THEN m
    ELSE Wait([m EXCEPT !.wlog = Append(m.wlog,
                    [port |-> p, v |-> m.Ports[p], p0 |-> m.Ports[0]])],
              m.Ports[p], p, env)

RECURSIVE WaitLoop(_, _, _)
WaitLoop(m, order, env) ==
    IF order = << >> THEN m
    ELSE WaitLoop(WaitVisit(m, Head(order), env), Tail(order), env)

\* case OpWait.  order is the order in which range visits the map i.waitH.
OpWaitCase(m, order, env) ==
    LET m0 == [m EXCEPT !.wlog = << >>]
    IN Advance(IF m0.Ports[0] # 1 THEN WaitLoop(m0, order, env) ELSE m0, 1)

\* A handler the embedder bound with BindInHandler: the exported default
\* (*Instance).In, or one that returns an error.
InHandler(m, port) ==
    IF ~Ok(m) THEN m
    ELSE IF m.opts.inKind = "In" THEN In(m, port)
    ELSE [m EXCEPT !.ret = "handler"]

\* A handler bound with BindOutHandler: (*Instance).Out, or one that
\* returns an error.
OutHandler(m, v, port, env) ==
    IF ~Ok(m) THEN m
    ELSE IF m.opts.outKind = "Out" THEN Out(m, v, port, env)
    ELSE [m EXCEPT !.ret = "handler"]

\* func fibFunc(v vm.Cell) vm.Cell of the tests
RECURSIVE fibLoop(_, _, _)
fibLoop(v, v0, v1) == IF v > 1 THEN fibLoop(v - 1, v1, Wrap(v0 + v1)) ELSE v1
fibFunc(v) == fibLoop(v, 0, 1)

\* The handler bound with BindOpcodeHandler: fibHandler of the tests, which
\* serves opcode -1 and returns an error for any other.
OpcodeHandler(m, opcode) ==
    IF opcode = -1 THEN [m EXCEPT !.Tos = fibFunc(m.Tos)]
    ELSE [m EXCEPT !.ret = "handler"]

\* case OpIn: h := i.inH[port]
OpInCase_noReset(m) ==
    LET port == m.Tos
    IN IF port \in m.opts.inH
       THEN Advance(InHandler(Drop(m), port), 1)
       ELSE IF ~InPorts(port) THEN Panic(m, "index")
       ELSE Advance([m EXCEPT !.Tos = m.Ports[port]], 1)

OpInCase(m) ==
    LET port == m.Tos
    IN IF port \in m.opts.inH
       THEN Advance(InHandler(Drop(m), port), 1)
       ELSE IF ~InPorts(port) THEN Panic(m, "index")
       ELSE Advance([m EXCEPT !.Tos = m.Ports[port], !.Ports[port] = 0], 1)

\* case OpOut: h := i.outH[port]
OpOutCase(m, env) ==
    IF ~InData(m.sp) THEN Panic(m, "index")
    ELSE LET v == m.data[m.sp]
             port == m.Tos
         IN Advance(IF port \in m.opts.outH
                    THEN OutHandler(Drop2(m), v, port, env)
                    ELSE Out(Drop2(m), v, port, env), 1)

\* case OpLoop
\* swap leaving a stack of fewer than two items alone
OpSwapCase_guarded(m) ==
    IF ~InData(m.sp) THEN Panic(m, "index")
    ELSE IF m.sp < 2 THEN Advance(m, 1)
    ELSE Advance([m EXCEPT !.Tos = m.data[m.sp], !.data[m.sp] = m.Tos], 1)

\* i.Tos, i.data[i.sp] = i.data[i.sp], i.Tos
OpSwapCase(m) ==
    IF ~InData(m.sp) THEN Panic(m, "index")
    ELSE Advance([m EXCEPT !.Tos = m.data[m.sp], !.data[m.sp] = m.Tos], 1)

\* loop branching while the decremented value is not negative
OpLoopCase_ge(m) ==
    LET v == Wrap(m.Tos - 1)
    IN IF v >= 0 THEN JumpArg([m EXCEPT !.Tos = v])
       ELSE Advance(Drop(m), 2)

OpLoopCase(m) ==
    LET v == Wrap(m.Tos - 1)
    IN IF v > 0 THEN JumpArg([m EXCEPT !.Tos = v])
       ELSE Advance(Drop(m), 2)

\* default branch of the switch, op < 0: the custom opcode, if one is bound
\* the opcode branch without the i.PC++ that follows the handler
OpcodeCase_noAdvance(m, op) ==
    IF m.opts.opH = "none" THEN m
    ELSE OpcodeHandler(m, op)

OpcodeCase(m, op) ==
    IF m.opts.opH = "none" THEN m
    ELSE Advance(OpcodeHandler(m, op), 1)

\* The body of the loop for the cell op at i.PC.
Exec(m, op, order, env) ==
    CASE op = OpNop  -> Advance(m, 1)
      [] op = OpLit  -> IF ~HasArg(m) THEN Panic(m, "index")
                        ELSE Advance(Push(m, Arg(m)), 2)
      [] op = OpDup  -> LET s == m.sp + 1
                        IN IF ~InData(s) THEN Panic([m EXCEPT !.sp = s], "index")
                           ELSE Advance([m EXCEPT !.sp = s, !.data[s] = m.Tos], 1)
      [] op = OpDrop -> Advance(Drop(m), 1)
      [] op = OpSwap -> OpSwapCase(m)
      [] op = OpPush -> Advance(Rpush(Pop(m), m.Tos), 1)
      [] op = OpPop  -> Advance(Push(Rpop(m), m.rtos), 1)
      [] op = OpLoop -> OpLoopCase(m)
      [] op = OpJump -> JumpArg(m)
      [] op = OpReturn -> LET m1 == Rpop(m)
                          IN IF ~Ok(m1) THEN m1 ELSE [m1 EXCEPT !.PC = Wrap(m.rtos + 1)]
      [] op = OpGtJump -> CondJump(m, InData(m.sp) /\ m.data[m.sp] > m.Tos)
      [] op = OpLtJump -> CondJump(m, InData(m.sp) /\ m.data[m.sp] < m.Tos)
      [] op = OpNeJump -> CondJump(m, InData(m.sp) /\ m.data[m.sp] # m.Tos)
      [] op = OpEqJump -> CondJump(m, InData(m.sp) /\ m.data[m.sp] = m.Tos)
      [] op = OpFetch -> IF ~InImage(m, m.Tos) THEN Panic(m, "index")
                         ELSE Advance([m EXCEPT !.Tos = ImageAt(m, m.Tos)], 1)
      [] op = OpStore -> IF ~InData(m.sp) \/ ~InImage(m, m.Tos) THEN Panic(m, "index")
                         ELSE Advance(Drop2([m EXCEPT !.Image[m.Tos + 1] = m.data[m.sp]]), 1)
      [] op = OpAdd -> Binary(m, Add(Lhs(m), m.Tos))
      [] op = OpSub -> Binary(m, Sub(Lhs(m), m.Tos))
      [] op = OpMul -> Binary(m, Mul(Lhs(m), m.Tos))
      [] op = OpDimod ->
            IF ~InData(m.sp) THEN Panic(m, "index")
            ELSE IF m.Tos = 0 THEN Panic(m, "divide")
            ELSE Advance([m EXCEPT !.data[m.sp] = Rem(m.data[m.sp], m.Tos),
                                   !.Tos = Quo(m.data[m.sp], m.Tos)], 1)
      [] op = OpAnd -> Binary(m, And(Lhs(m), m.Tos))
      [] op = OpOr  -> Binary(m, Or(Lhs(m), m.Tos))
      [] op = OpXor -> Binary(m, Xor(Lhs(m), m.Tos))
      [] op = OpShl -> Binary(m, Shl(Lhs(m), m.Tos))
      [] op = OpShr -> Binary(m, Shr(Lhs(m), m.Tos))
      [] op = OpZeroExit ->
            IF m.Tos = 0
            THEN LET m1 == Rpop(m)
                 IN IF ~Ok(m1) THEN m1 ELSE Drop([m1 EXCEPT !.PC = Wrap(m.rtos + 1)])
            ELSE Advance(m, 1)
      [] op = OpInc -> Advance([m EXCEPT !.Tos = Wrap(m.Tos + 1)], 1)
      [] op = OpDec -> Advance([m EXCEPT !.Tos = Wrap(m.Tos - 1)], 1)
      [] op = OpIn -> OpInCase(m)
      [] op = OpOut -> OpOutCase(m, env)
      [] op = OpWait -> OpWaitCase(m, order, env)
      [] op > OpWait -> ImplicitCall(m, op)
      [] OTHER -> OpcodeCase(m, op)

(***************************************************************************)
(* The state: the fields of vm.Instance, the position of Run, and history   *)
(* variables.                                                              *)
(***************************************************************************)
VARIABLES
    PC, Image, Ports, Tos, sp, data, rtos, rsp, address,  \* Instance
    insCount,   \* i.insCount
    input,      \* i.input
    output,     \* i.output # nil
    shrink,     \* i.shrink
    outbuf,     \* what the terminal received
    saves,      \* number of images written by Save
    phase,      \* "ready": constructed; "running": in Run; "returned"
    err,        \* the error Run returned
    delivered,  \* history: the runes the port-1 handler put on port 1
    pushed,     \* history: the sources pushed on the input stack, in order
    wlog,       \* history: the handler calls of the last wait instruction
    lib,        \* the state the library calls made outside Run work on
    prev,       \* history: the machine before the last instruction
    opts,       \* the options given to New: handlers bound, sizes asked for
    runs,       \* number of calls of Run so far
    dispatched  \* history: iterations of the loop begun by the current call

instanceVars ==
    <<PC, Image, Ports, Tos, sp, data, rtos, rsp, address, insCount, input,
      output, shrink, outbuf, saves, phase, err, delivered, pushed, wlog, prev,
      opts, runs, dispatched>>
vars == <<instanceVars, lib>>

\* the machine of the current state
Cur == [PC |-> PC, Image |-> Image, Ports |-> Ports, Tos |-> Tos, sp |-> sp,
        data |-> data, rtos |-> rtos, rsp |-> rsp, address |-> address,
        input |-> input, output |-> output, shrink |-> shrink,
        outbuf |-> outbuf, saves |-> saves, delivered |-> delivered,
        pushed |-> pushed, wlog |-> wlog, opts |-> opts, panic |-> "", ret |-> ""]

SetMachine(m) ==
    /\ PC' = m.PC /\ Image' = m.Image /\ Ports' = m.Ports /\ Tos' = m.Tos
    /\ sp' = m.sp /\ data' = m.data /\ rtos' = m.rtos /\ rsp' = m.rsp
    /\ address' = m.address /\ input' = m.input /\ output' = m.output
    /\ shrink' = m.shrink /\ outbuf' = m.outbuf /\ saves' = m.saves
    /\ delivered' = m.delivered /\ pushed' = m.pushed /\ wlog' = m.wlog
    /\ opts' = m.opts

(***************************************************************************)
(* Construction: New, then the embedder's Push, PushInput and port writes. *)
(***************************************************************************)
ZeroPorts == [p \in 0..(portCount - 1) |-> 0]

RECURSIVE PushAll(_, _)
PushAll(m, vs) == IF vs = << >> THEN m ELSE PushAll(Push(m, Head(vs)), Tail(vs))

RECURSIVE PushInputs(_, _)
PushInputs(in, rs) ==
    IF rs = << >> THEN in ELSE PushInputs(PushInput(in, Head(rs)), Tail(rs))

\* No option given to New: the maps i.inH and i.outH are empty, no opcode
\* handler is bound, no stack size is asked for (0).
NoOpts == [inH |-> {}, inKind |-> "In", outH |-> {}, outKind |-> "Out",
           opH |-> "none", dsize |-> 0, asize |-> 0]

\* func New(image, imageFile, opts...): PC 0, empty stacks, zeroed slices
New(img) ==
    [PC |-> 0, Image |-> img, Ports |-> ZeroPorts, Tos |-> 0, sp |-> 0,
     data |-> [k \in 0..(dataLen - 1) |-> 0], rtos |-> 0, rsp |-> 0,
     address |-> [k \in 0..(addressLen - 1) |-> 0],
     input |-> NilInput, output |-> FALSE, shrink |-> FALSE,
     outbuf |-> << >>, saves |-> 0, delivered |-> << >>, pushed |-> << >>,
     wlog |-> << >>, opts |-> NoOpts, panic |-> "", ret |-> ""]

\* the instance a scenario sets up before Run
Setup(sc) ==
    [PushAll(New(sc.img), sc.stack) EXCEPT
        !.Ports = sc.ports,
        !.input = PushInputs(NilInput, sc.inputs),
        !.pushed = [k \in 1..Len(sc.inputs) |-> [src |-> sc.inputs[k], at |-> 0]],
        !.output = sc.output,
        !.shrink = sc.shrink,
        !.opts = sc.opts]

Scenario(img, ports, stack, inputs, out, shr) ==
    [img |-> img, ports |-> ports, stack |-> stack, inputs |-> inputs,
     output |-> out, shrink |-> shr, opts |-> NoOpts]
\* the same scenario with options o given to New
WithOpts(sc, o) == [sc EXCEPT !.opts = o]

\* cell values of the short images: every opcode, a negative cell, a call
Alphabet == (OpNop..OpWait) \cup {-1, 35}
StackChoices == {<< >>, <<3>>, <<-1>>, <<3, 3>>, <<3, -1>>, <<-1, 3>>, <<-1, -1>>}
Sources == {<< >>, <<53, 54>>, <<51, 52>>, <<49, 50>>}

\* sequences of at most n elements of S
RECURSIVE SeqsUpTo(_, _)
SeqsUpTo(S, n) ==
    IF n = 0 THEN {<< >>}
    ELSE LET shorter == SeqsUpTo(S, n - 1)
         IN shorter \cup {Append(q, x) : q \in shorter, x \in S}

\* n nop cells
Nops(n) == [k \in 1..n |-> OpNop]
\* an image with lo at address 0 and hi at address 32
Prog(lo, hi) == lo \o Nops(32 - Len(lo)) \o hi

\* family 1: every image of one or two cells, on every small stack
ShortScenarios ==
    {Scenario(img, ZeroPorts, st, << >>, FALSE, FALSE) :
        img \in {<<a>> : a \in Alphabet} \cup {<<a, b>> : a \in Alphabet, b \in Alphabet},
        st \in StackChoices}

\* family 2: a run that starts on a wait instruction, with the ports set
PortChoices ==
    {ps \in {(0 :> a) @@ (1 :> b) @@ (2 :> c) @@ (4 :> d) @@ (5 :> e) @@ (8 :> f) :
                a \in {0, 1}, b \in {0, 1}, c \in {0, 1}, d \in {0, 1, 2},
                e \in {-10, -9, -5, -1, 0}, f \in {0, 1, 2}} :
        Cardinality({p \in waitH : ps[p] # 0}) <= MaxBusy}
PortsOf(ps) == [p \in 0..(portCount - 1) |-> IF p \in DOMAIN ps THEN ps[p] ELSE 0]
WaitImages == {<<OpWait>>, <<OpWait, OpInc, OpInc>>}
WaitInputs == {<< >>, << << >> >>, << <<49>> >>, << << >>, << >> >>}
WaitScenarios ==
    {Scenario(img, PortsOf(ps), st, ins, out, FALSE) :
        img \in WaitImages, ps \in PortChoices, st \in StackChoices,
        ins \in WaitInputs, out \in BOOLEAN}

\* family 3: programs
\* lit 1 dup out  lit 0 dup out  wait  lit 1 in drop  jump 0
ReaderImage == <<OpLit, 1, OpDup, OpOut, OpLit, 0, OpDup, OpOut, OpWait,
                 OpLit, 1, OpIn, OpDrop, OpJump, 0>>
ReaderScenarios ==
    {Scenario(ReaderImage, ZeroPorts, << >>, ins, FALSE, FALSE) :
        ins \in SeqsUpTo(Sources, MaxInputs)}
Programs ==
    { Prog(<<32, OpJump, 40>>, <<OpNop, OpNop, OpInc, OpReturn>>),
      Prog(<<32, OpJump, 40>>, <<OpInc, OpReturn>>),
      Prog(<<33>>, <<OpPush, OpNop, OpNop>>),
      Prog(<<OpLit, 7, 32>>, <<OpNop, OpNop, OpInc>>),
      Prog(<<32>>, <<32>>),
      Prog(<<OpLit, -6, OpLit, 5, 32, OpLit, 42, OpPush, OpLit, 42, OpPush,
             OpLit, -6, OpLit, 5, 32, OpJump, 64>>,
           <<OpOut, OpLit, 0, OpLit, 0, OpOut, OpWait, OpLit, 5, OpIn, OpReturn>>),
      <<OpLit, 7, OpLit, 8, OpLit, -5, OpLit, 5, OpOut, OpWait, OpLit, 5, OpIn>>,
      <<OpLit, 1, OpJump, 0>>,
      <<OpDup, OpJump, 0>>,
      <<OpPush, OpJump, 0>>,
      <<OpLit, 5, OpSwap, OpDrop>>,
      <<OpLit, 5, OpSwap, OpDup, OpDrop>>,
      <<OpLit, 5, OpSwap, OpSwap, OpDup, OpDrop>>,
      <<OpLit, 2, OpLit, 3, OpAdd>>,
      <<OpLit, 25, OpLit, 5, OpDimod>>,
      <<OpLit, 3, OpDup, OpPush, OpLoop, 2>>,
      <<OpLit, 10, OpLoop, 2>>,
      <<OpLit, 9, OpLit, 3, OpLit, 5, OpLtJump, 9, OpNop, OpInc>>,
      <<OpLit, 9, OpLit, 3, OpLit, 5, OpGtJump, 9, OpNop, OpInc>>,
      <<OpLit, -1, OpLit, 5, OpOut, OpWait, OpLit, 5, OpIn>>,
      <<OpLit, 7, OpLit, -10, OpLit, 5, OpOut, OpWait>>,
      <<OpLit, 1, OpLit, 1, OpOut, OpLit, -9, OpLit, 5, OpOut, OpWait, OpInc>>,
      <<OpLit, 9, OpLit, 3, OpOut, OpLit, 1, OpLit, 4, OpOut, OpWait>> }
ProgramScenarios ==
    {Scenario(img, ZeroPorts, << >>, << >>, out, shr) :
        img \in Programs, out \in BOOLEAN, shr \in BOOLEAN}

\* family 4: handlers bound with BindInHandler, BindOutHandler and
\* BindOpcodeHandler
InOpts ==
    {[NoOpts EXCEPT !.inH = {p}, !.inKind = k] : p \in {0, 3, 6}, k \in {"In", "fail"}}
OutOpts ==
    {[NoOpts EXCEPT !.outH = {p}, !.outKind = k] : p \in {3, 6}, k \in {"Out", "fail"}}
OpcodeOpts == {[NoOpts EXCEPT !.opH = "fib"]}
\* 6 in  42 6 out  6 in  6 in
InTestImage == <<OpLit, 6, OpIn, OpLit, 42, OpLit, 6, OpOut, OpLit, 6, OpIn,
                 OpLit, 6, OpIn>>
InImages == {<<OpIn>>, <<OpIn, OpIn>>, <<OpLit, 6, OpIn>>, InTestImage}
OutImages == {<<OpOut>>, <<OpLit, 6, OpOut>>, <<OpLit, 0, OpOut>>}
OpcodeImages == {<<-1, OpInc>>, <<-2, OpInc>>, <<OpLit, 10, -1>>}
HandlerPorts == {ZeroPorts, PortsOf((0 :> 7) @@ (3 :> 9) @@ (6 :> 5))}
HandlerChoices ==
    (InImages \X (InOpts \cup {NoOpts})) \cup (OutImages \X (OutOpts \cup {NoOpts}))
        \cup (OpcodeImages \X OpcodeOpts)
HandlerScenarios ==
    {WithOpts(Scenario(c[1], ps, st, << >>, out, FALSE), c[2]) :
        c \in HandlerChoices, ps \in HandlerPorts, st \in StackChoices,
        out \in BOOLEAN}

\* Test_io_Stacks: `-16 5 out 0 0 out wait 5 in -17 5 out 0 0 out wait 5 in`
\* on an instance created with DataSize(24) and AddressSize(42)
StacksImage ==
    <<OpLit, -16, OpLit, 5, OpOut, OpLit, 0, OpLit, 0, OpOut, OpWait, OpLit, 5, OpIn,
      OpLit, -17, OpLit, 5, OpOut, OpLit, 0, OpLit, 0, OpOut, OpWait, OpLit, 5, OpIn>>
SizeOpts == {NoOpts, [NoOpts EXCEPT !.dsize = 24, !.asize = 42],
             [NoOpts EXCEPT !.dsize = 24], [NoOpts EXCEPT !.asize = 42]}
StacksScenarios ==
    {WithOpts(Scenario(StacksImage, ZeroPorts, << >>, << >>, out, FALSE), o) :
        o \in SizeOpts, out \in BOOLEAN}

Scenarios ==
    ShortScenarios \cup WaitScenarios \cup ReaderScenarios \cup ProgramScenarios
        \cup HandlerScenarios \cup StacksScenarios

\* the instance New has returned for machine m
InitInstance(m) ==
    /\ PC = m.PC /\ Image = m.Image /\ Ports = m.Ports /\ Tos = m.Tos
    /\ sp = m.sp /\ data = m.data /\ rtos = m.rtos /\ rsp = m.rsp
    /\ address = m.address /\ input = m.input /\ output = m.output
    /\ shrink = m.shrink /\ outbuf = m.outbuf /\ saves = m.saves
    /\ delivered = m.delivered /\ pushed = m.pushed /\ wlog = m.wlog
    /\ opts = m.opts
    /\ runs = 0
    /\ dispatched = 0
    /\ insCount = 0
    /\ phase = "ready"
    /\ err = "nil"
    /\ prev = m

\* no library call outside Run is in progress
NoLib == [kind |-> "none"]

Init ==
    \E sc \in Scenarios : InitInstance(Setup(sc)) /\ lib = NoLib

(***************************************************************************)
(* What the host answers: the environment variable read by selector -10,   *)
(* whether os.Open succeeds and what the file holds, whether a write to    *)
(* the terminal or the image file fails, the clock, the terminal size.     *)
(***************************************************************************)
Envs ==
    {[getenv |-> g, open |-> o[1], file |-> o[2], ioErr |-> e,
      now |-> 1000, width |-> 80, height |-> 25] :
        g \in {<< >>, <<65>>},
        o \in {<<"fail", << >> >>, <<"ok", << >> >>, <<"ok", <<55>> >>},
        e \in BOOLEAN}
NoEnv == CHOOSE e \in Envs : TRUE

\* The orders in which range can visit i.waitH.  A port that is 0 when the
\* wait starts is 0 when it is visited (a default handler writes its own
\* port and port 0 only), so an order is an order of the nonzero ports.
Orders(m) ==
    LET busy == {p \in waitH : m.Ports[p] # 0}
        n == Cardinality(busy)
    IN {o \in [1..n -> busy] : \A a \in 1..n, b \in 1..n : a # b => o[a] # o[b]}

(***************************************************************************)
(* Run (vm/core.go).                                                       *)
(***************************************************************************)
\* A call of Run, on a new instance or on one a former call returned from:
\* i.insCount = 0 and the first test of the loop condition
\* Run without i.insCount = 0
RunStart_noReset ==
    /\ phase \in {"ready", "returned"}
    /\ runs < MaxRuns
    /\ runs' = runs + 1
    /\ phase' = "running"
    /\ err' = "nil"
    /\ dispatched' = 0
    /\ UNCHANGED <<PC, Image, Ports, Tos, sp, data, rtos, rsp, address, input,
                   output, shrink, outbuf, saves, delivered, pushed, wlog, prev,
                   opts, insCount, lib>>

RunStart ==
    /\ phase \in {"ready", "returned"}
    /\ runs < MaxRuns
    /\ runs' = runs + 1
    /\ phase' = "running"
    /\ err' = "nil"
    /\ insCount' = 0
    /\ dispatched' = 0
    /\ UNCHANGED <<PC, Image, Ports, Tos, sp, data, rtos, rsp, address, input,
                   output, shrink, outbuf, saves, delivered, pushed, wlog, prev,
                   opts, lib>>

\* the loop condition fails: return nil
RunReturn ==
    /\ phase = "running"
    /\ PC >= Len(Image)
    /\ phase' = "returned"
    /\ err' = "nil"
    /\ UNCHANGED <<PC, Image, Ports, Tos, sp, data, rtos, rsp, address, insCount,
                   input, output, shrink, outbuf, saves, delivered, pushed, wlog, prev,
                   opts, runs, dispatched, lib>>

\* the end of an iteration: a panic is recovered and returned as an error, a
\* handler's error is returned, otherwise the instruction is counted
Finish(m) ==
    /\ SetMachine(m)
    /\ prev' = Cur
    /\ dispatched' = IF InImage(Cur, PC) THEN dispatched + 1 ELSE dispatched
    /\ runs' = runs
    /\ lib' = lib
    /\ IF m.panic # ""
       THEN phase' = "returned" /\ err' = m.panic /\ insCount' = insCount
       ELSE IF m.ret # ""
       THEN phase' = "returned" /\ err' = m.ret /\ insCount' = insCount
       ELSE phase' = phase /\ err' = err /\ insCount' = insCount + 1

\* the loop condition written with <=
InLoop_offByOne == phase = "running" /\ PC <= Len(Image) /\ insCount < MaxIns
InLoop == phase = "running" /\ PC < Len(Image) /\ insCount < MaxIns
Op == Image[PC + 1]
Fetched(ops) == InLoop /\ InImage(Cur, PC) /\ Op \in ops

\* op := i.Image[i.PC] with PC outside the image
StepFetchPanic ==
    /\ InLoop /\ ~InImage(Cur, PC)
    /\ Finish(Panic(Cur, "index"))

StepStack ==
    /\ Fetched({OpNop, OpLit, OpDup, OpDrop, OpSwap, OpPush, OpPop})
    /\ Finish(Exec(Cur, Op, << >>, NoEnv))

StepControl ==
    /\ Fetched({OpLoop, OpJump, OpReturn, OpGtJump, OpLtJump, OpNeJump, OpEqJump,
                OpZeroExit})
    /\ Finish(Exec(Cur, Op, << >>, NoEnv))

StepMemory ==
    /\ Fetched({OpFetch, OpStore})
    /\ Finish(Exec(Cur, Op, << >>, NoEnv))

StepArith ==
    /\ Fetched({OpAdd, OpSub, OpMul, OpDimod, OpAnd, OpOr, OpXor, OpShl, OpShr,
                OpInc, OpDec})
    /\ Finish(Exec(Cur, Op, << >>, NoEnv))

StepIn ==
    /\ Fetched({OpIn})
    /\ Finish(Exec(Cur, Op, << >>, NoEnv))

StepOut ==
    /\ Fetched({OpOut})
    /\ \E env \in Envs : Finish(Exec(Cur, Op, << >>, env))

StepWait ==
    /\ Fetched({OpWait})
    /\ \E order \in Orders(Cur), env \in Envs : Finish(Exec(Cur, Op, order, env))

StepCall ==
    /\ InLoop /\ InImage(Cur, PC) /\ Op > OpWait
    /\ Finish(Exec(Cur, Op, << >>, NoEnv))

\* a negative cell with no OpcodeHandler
StepNegative ==
    /\ InLoop /\ InImage(Cur, PC) /\ Op < 0 /\ opts.opH = "none"
    /\ Finish(Exec(Cur, Op, << >>, NoEnv))

\* a negative cell with an OpcodeHandler bound
StepOpcode ==
    /\ InLoop /\ InImage(Cur, PC) /\ Op < 0 /\ opts.opH # "none"
    /\ Finish(Exec(Cur, Op, << >>, NoEnv))

Next ==
    \/ RunStart
    \/ RunReturn
    \/ StepFetchPanic
    \/ StepStack
    \/ StepControl
    \/ StepMemory
    \/ StepArith
    \/ StepIn
    \/ StepOut
    \/ StepWait
    \/ StepCall
    \/ StepNegative
    \/ StepOpcode

Spec == Init /\ [][Next]_vars

(***************************************************************************)
(* Properties of Run.  prev is the machine as the last attempted            *)
(* instruction found it; Attempted says there was one, Completed that it   *)
(* reached the end of its iteration.                                       *)
(***************************************************************************)
Attempted == insCount > 0 \/ err # "nil"
Completed == insCount > 0 /\ err = "nil"
Fatal == phase = "returned" /\ err \in {"index", "divide"}
PrevOp == IF InImage(prev, prev.PC) THEN ImageAt(prev, prev.PC) ELSE -1

\* C1 as written: between two instructions PC lies in [0, len(Image)), and
\* Run returns nil as soon as PC is at or beyond len(Image).
C1_Original ==
    /\ (phase = "running" /\ PC < Len(Image)) => PC >= 0
    /\ (phase = "returned" /\ err = "nil") => PC >= Len(Image)

\* C1 amended: an instruction is only ever attempted at a PC below
\* len(Image), Run returns nil only with PC at or beyond len(Image), and a
\* negative PC (a jump or return to a negative address) ends the run with an
\* index error that leaves PC as it was.
C1_PCBelowLen ==
    /\ Attempted => prev.PC < Len(Image)
    /\ (phase = "returned" /\ err = "nil") => PC >= Len(Image)
    /\ (phase = "running" /\ PC >= 0 /\ insCount < MaxIns) =>
           (ENABLED RunReturn <=> PC >= Len(Image))
    /\ (Attempted /\ prev.PC < 0) => (Fatal /\ err = "index" /\ PC = prev.PC)

C1_Witness ==
    phase = "returned" /\ err = "nil" /\ insCount > 1 /\ PC >= Len(Image)

\* the cells a..(b-1) of the image are nops
NopsBetween(a, b) == \A k \in a..(b - 1) : InImage(Cur, k) /\ ImageAt(Cur, k) = OpNop

\* C2: a completed instruction whose cell v is above the opcodes, fetched at
\* address A, leaves A on top of the address stack above what was there,
\* leaves PC at the first cell at or after v that is not a nop (or at the end
\* of the image), and leaves the data stack as it was.
C2_ImplicitCall ==
    (Completed /\ PrevOp > OpWait) =>
        /\ rtos = prev.PC
        /\ rsp = prev.rsp + 1
        /\ address = [prev.address EXCEPT ![rsp] = prev.rtos]
        /\ PC >= PrevOp
        /\ NopsBetween(PrevOp, PC)
        /\ InImage(Cur, PC) => ImageAt(Cur, PC) # OpNop
        /\ sp = prev.sp /\ Tos = prev.Tos /\ data = prev.data

C2_Witness ==
    /\ Completed /\ PrevOp > OpWait
    /\ PC > PrevOp + 1 /\ InImage(Cur, PC)
    /\ prev.PC > 0 /\ prev.sp > 0

\* C3 as written: within a wait a handler is called exactly for the handled
\* ports that are nonzero while port 0 is not 1, so none is called with port
\* 0 holding 1.
C3_Original ==
    /\ \A k \in 1..Len(wlog) : wlog[k].v # 0 /\ wlog[k].p0 # 1
    /\ (Completed /\ PrevOp = OpWait /\ prev.Ports[0] # 1) =>
           \A p \in waitH : prev.Ports[p] # 0 => \E k \in 1..Len(wlog) : wlog[k].port = p

C3_Witness ==
    /\ Attempted /\ PrevOp = OpWait
    /\ Len(wlog) = 2 /\ wlog[1].p0 = 0 /\ wlog[2].p0 = 1 /\ wlog[2].v # 0

\* reading n bytes off a stack of sources, the top one first:
\* <<the bytes read, the stack left>>
RECURSIVE LifoRead(_, _)
LifoRead(stack, n) ==
    IF n = 0 \/ stack = << >> THEN << << >>, stack >>
    ELSE IF Head(stack) = << >> THEN LifoRead(Tail(stack), n)
    ELSE LET r == LifoRead(<<Tail(Head(stack))>> \o Tail(stack), n - 1)
         IN << <<Head(Head(stack))>> \o r[1], r[2] >>

RECURSIVE TotalLen(_)
TotalLen(ps) == IF ps = << >> THEN 0 ELSE Len(Head(ps).src) + TotalLen(Tail(ps))

\* the bytes a last-in first-out stack of sources delivers when the pushes
\* ps are made, each after ps[k].at bytes have been read, and it is then
\* read to its end
RECURSIVE LifoStream(_, _, _)
LifoStream(ps, stack, done) ==
    IF ps = << >> THEN LifoRead(stack, TotalLen(pushed))[1]
    ELSE LET r == LifoRead(stack, Head(ps).at - done)
         IN r[1] \o LifoStream(Tail(ps), <<Head(ps).src>> \o r[2], Head(ps).at)

IsPrefix(a, b) == Len(a) <= Len(b) /\ \A k \in 1..Len(a) : a[k] = b[k]

\* C4: the bytes the port-1 reads have delivered are always the first bytes
\* of what a last-in first-out stack of the pushed sources holds, each
\* source in its own order; Run returns io.EOF only when all of them have
\* been delivered, and the sources "56", "34", "12" pushed in that order
\* have then delivered 1 2 3 4 5 6.
C4_InputLifo ==
    /\ IsPrefix(delivered, LifoStream(pushed, << >>, 0))
    /\ (phase = "returned" /\ err = "EOF") =>
           delivered = LifoStream(pushed, << >>, 0)
    /\ (phase = "returned" /\ err = "EOF"
          /\ [k \in 1..Len(pushed) |-> pushed[k].src] = << <<53, 54>>, <<51, 52>>, <<49, 50>> >>) =>
           delivered = <<49, 50, 51, 52, 53, 54>>

C4_Witness ==
    /\ phase = "returned" /\ err = "EOF"
    /\ [k \in 1..Len(pushed) |-> pushed[k].src] = << <<53, 54>>, <<51, 52>>, <<49, 50>> >>
    /\ delivered = <<49, 50, 51, 52, 53, 54>>

\* no source of the input can deliver a byte
NoInput(in) == \A k \in 1..Len(in.readers) : in.readers[k] = << >>
\* the last attempted instruction was a wait that found port 0 not 1
WaitAttempted == Attempted /\ PrevOp = OpWait /\ prev.Ports[0] # 1
\* the wait called the handler of port p
Visited(p) == \E k \in 1..Len(wlog) : wlog[k].port = p
\* the wait called the handler of port p before any call for port q
VisitedBefore(p, q) ==
    \E k \in 1..Len(wlog) : wlog[k].port = p /\ \A j \in 1..k : wlog[j].port # q
OthersIdle(p) == \A q \in waitH \ {p} : prev.Ports[q] = 0

C7_Original ==
    /\ ~Fatal => (InData(sp) /\ InAddress(rsp))
    /\ (Attempted /\ PrevOp = OpDup /\ prev.sp = dataLen - 1) => Fatal
    /\ (Attempted /\ PrevOp > OpWait /\ prev.rsp = addressLen - 1) => Fatal

C7_Witness == Completed /\ PrevOp = OpWait /\ prev.Ports[5] = -10 /\ sp = -1

\* a data stack overflow is fatal
C7_OverflowWitness == Fatal /\ PrevOp = OpDup /\ prev.sp = dataLen - 1 /\ sp = dataLen

\* C8: on a machine whose data stack is empty Drop and Pop do not fail and
\* leave the depth at 0, and a drop instruction found with an empty stack
\* completes with the depth still 0.
C8_DropPopEmpty ==
    /\ sp = 0 => /\ Ok(Drop(Cur)) /\ Depth(Drop(Cur)) = 0
                 /\ Ok(Pop(Cur)) /\ Depth(Pop(Cur)) = 0
    /\ (Attempted /\ PrevOp = OpDrop /\ prev.sp = 0) =>
           (err = "nil" /\ sp = 0 /\ PC = prev.PC + 1)

C8_Witness == Completed /\ PrevOp = OpDrop /\ prev.sp = 0 /\ sp = 0 /\ phase = "running"

\* C9 as written: with an empty data stack TOS reads 0, and with fewer than
\* two items NOS reads 0.
C9_Original ==
    /\ Depth(Cur) = 0 => (Tos = 0 /\ Nos(Cur) = 0)
    /\ Depth(Cur) = 1 => Nos(Cur) = 0

C9_Witness == Completed /\ PrevOp = OpDrop /\ Depth(Cur) = 0 /\ Tos = 5

\* C10 as written: when Run returns a fatal error PC is the address of the
\* instruction that failed.
C10_Original == Fatal => PC = prev.PC

C10_Witness ==
    /\ Fatal /\ PrevOp = OpWait /\ prev.Ports[5] = -9
    /\ PC = Len(Image) - 1 /\ PC # prev.PC

\* the errors a handler returns: the reader's io.EOF, a failed os.Open, a
\* failed write or flush of the terminal, the error of a bound handler
HandlerErrors == {"EOF", "open", "write", "flush", "handler"}

\* C11 as written: when Run returns the error of an In, Out, Wait or opcode
\* handler, PC is still the address of the instruction that called the
\* handler and that instruction is the last one dispatched.
C11_Original ==
    (phase = "returned" /\ err \in HandlerErrors) =>
        (PC = prev.PC /\ PrevOp = ImageAt(Cur, PC) /\ dispatched = insCount + 1)

C11_Witness ==
    /\ phase = "returned" /\ err = "EOF" /\ PrevOp = OpWait
    /\ prev.Ports[5] = -9 /\ prev.Ports[1] = 1
    /\ PC = Len(Image) - 1 /\ PC # prev.PC

\* a handler bound by the embedder returns an error: PC stays
C11_HandlerWitness ==
    /\ phase = "returned" /\ err = "handler" /\ PrevOp = OpIn
    /\ PC = prev.PC /\ PC > 0

CondJumps == {OpGtJump, OpLtJump, OpNeJump, OpEqJump}

\* the relation a conditional jump tests between NOS and TOS
Holds(op, nos, tos) ==
    CASE op = OpEqJump -> nos = tos
      [] op = OpNeJump -> nos # tos
      [] op = OpLtJump -> nos < tos
      [] op = OpGtJump -> nos > tos

\* C12: =jump, !jump, <jump and >jump set PC to their immediate operand
\* exactly when the relation holds between NOS and TOS and to PC + 2
\* otherwise, and in both cases remove the two operands: the depth drops by
\* two (to zero on a shorter stack), the third item becomes TOS and the
\* items below are untouched.
C12_CondJump ==
    (Completed /\ PrevOp \in CondJumps) =>
        /\ IF Holds(PrevOp, Nos(prev), prev.Tos)
           THEN HasArg(prev) /\ PC = Arg(prev)
           ELSE PC = prev.PC + 2
        /\ sp = IF prev.sp >= 2 THEN prev.sp - 2 ELSE 0
        /\ Tos = prev.data[sp + 1]
        /\ data = prev.data

\* a taken <jump and a not taken >jump on a stack of three items
C12_Witness ==
    /\ Completed /\ PrevOp = OpLtJump /\ prev.sp = 3
    /\ Nos(prev) = 3 /\ prev.Tos = 5 /\ PC = 9 /\ sp = 1 /\ Tos = 9

C12_NotTakenWitness ==
    /\ Completed /\ PrevOp = OpGtJump /\ prev.sp = 3
    /\ Nos(prev) = 3 /\ prev.Tos = 5 /\ PC = 8 /\ sp = 1 /\ Tos = 9

\* C13: loop decrements TOS; when the new value is greater than 0 it sets PC
\* to its immediate operand and leaves the decremented value on TOS with the
\* depth unchanged, otherwise it drops TOS (NOS becomes TOS) and continues
\* at PC + 2.
C13_Loop ==
    (Completed /\ PrevOp = OpLoop) =>
        LET v == Wrap(prev.Tos - 1)
        IN IF v > 0
           THEN /\ HasArg(prev) /\ PC = Arg(prev)
                /\ Tos = v /\ sp = prev.sp /\ data = prev.data
           ELSE /\ PC = prev.PC + 2
                /\ sp = (IF prev.sp # 0 THEN prev.sp - 1 ELSE 0)
                /\ Tos = Nos(prev) /\ data = prev.data

\* the loop of `lit 3 dup push loop 2` branching with 2 and falling through
\* when the counter reaches 0
C13_Witness ==
    /\ Completed /\ PrevOp = OpLoop /\ prev.Tos = 3 /\ prev.sp = 1
    /\ PC = 2 /\ Tos = 2 /\ sp = 1

C13_ExitWitness ==
    /\ Completed /\ PrevOp = OpLoop /\ prev.Tos = 1 /\ prev.sp = 1
    /\ PC = prev.PC + 2 /\ sp = 0 /\ insCount > 3

\* one iteration of Run's loop on machine m, outside any wait
Iterate(m) ==
    IF ~Ok(m) \/ ~InImage(m, m.PC) THEN Panic(m, "index")
    ELSE Exec(m, ImageAt(m, m.PC), << >>, NoEnv)

\* the machine stands on `swap dup drop` with exactly one item on the stack
AtSwapDupDrop ==
    /\ phase = "running" /\ sp = 1 /\ PC >= 0
    /\ InImage(Cur, PC + 2)
    /\ ImageAt(Cur, PC) = OpSwap
    /\ ImageAt(Cur, PC + 1) = OpDup
    /\ ImageAt(Cur, PC + 2) = OpDrop

SameResult(a, b) ==
    /\ Ok(a) = Ok(b)
    /\ Ok(a) => /\ a.Tos = b.Tos /\ a.sp = b.sp /\ a.data = b.data
                /\ a.Ports = b.Ports /\ a.PC = b.PC

C15_SecondInWitness ==
    /\ Completed /\ PrevOp = OpIn /\ opts.inH = {}
    /\ prev.Tos = 6 /\ Tos = 0 /\ Nos(Cur) = 42 /\ PC = Len(Image)

C15_HandlerWitness ==
    /\ Completed /\ PrevOp = OpIn /\ opts.inH = {6} /\ opts.inKind = "In"
    /\ prev.Tos = 6 /\ prev.Ports[6] = 42 /\ Tos = 42 /\ Ports[6] = 0

\* outside the claim's case: on an empty stack there is no port number to
\* replace, port 0 is read, the built-in path leaves the stack empty and
\* the bound In pushes the value
C15_EmptyStackDiffers ==
    /\ phase = "running" /\ InImage(Cur, PC) /\ ImageAt(Cur, PC) = OpIn
    /\ sp = 0
    /\ OpInCase([Cur EXCEPT !.opts.inH = {}]).sp = 0
    /\ OpInCase([Cur EXCEPT !.opts.inH = {Tos}, !.opts.inKind = "In"]).sp = 1

\* OUT has removed its two operands from the stack prev held
OperandsRemoved ==
    /\ sp = (IF prev.sp >= 2 THEN prev.sp - 2 ELSE 0)
    /\ Tos = prev.data[sp + 1]
    /\ data = prev.data

C16_FlushWitness ==
    /\ Completed /\ PrevOp = OpOut /\ opts.outH = {} /\ output
    /\ prev.Tos = 3 /\ Nos(prev) = 9 /\ prev.sp = 2 /\ sp = 0
    /\ Ports = prev.Ports /\ Ports[3] = 0

C16_FlushErrorWitness ==
    /\ phase = "returned" /\ err = "flush" /\ PrevOp = OpOut
    /\ Nos(prev) = 9 /\ sp = 0 /\ Ports[3] = 0

\* the last attempted instruction was a negative cell with a handler bound
CustomOpcode ==
    /\ Attempted /\ InImage(prev, prev.PC) /\ PrevOp < 0
    /\ prev.opts.opH # "none"

C17_FallThroughWitness ==
    /\ Completed /\ PrevOp = OpInc /\ prev.PC = 1 /\ insCount = 2
    /\ ImageAt(prev, 0) = -1 /\ opts.opH = "fib"

C17_OtherOpcodeWitness ==
    /\ CustomOpcode /\ PrevOp = -2 /\ err = "handler"

\* C18 as written: when Run returns, the instruction counter equals the
\* number of instructions the call dispatched.
C18_Original == phase = "returned" => insCount = dispatched

\* C18 amended: the counter is 0 at the start of every Run call and counts
\* the instructions the call executed to completion, an implicit call with
\* the nops it skips being one of them: during the call and when Run
\* returns nil it equals the number of instructions dispatched, and when
\* Run returns an error the instruction that failed is not counted.
C18_InsCount ==
    /\ (phase = "running" \/ err = "nil") => insCount = dispatched
    /\ (phase = "returned" /\ err # "nil") =>
           insCount = dispatched - (IF InImage(prev, prev.PC) THEN 1 ELSE 0)
    /\ (phase = "ready") => insCount = 0

\* `10 :0 loop 0-` has returned nil with a count of 11
C18_Witness ==
    /\ phase = "returned" /\ err = "nil" /\ Image = <<OpLit, 10, OpLoop, 2>>
    /\ insCount = 11 /\ dispatched = 11 /\ PC = 4

\* a call that skipped two nops is the second instruction counted
C18_CallWitness ==
    /\ Completed /\ PrevOp = 32 /\ PC = 34 /\ insCount = 2 /\ prev.sp = 1
    /\ ImageAt(prev, 32) = OpNop /\ ImageAt(prev, 33) = OpNop

\* a second Run call on an instance whose first call counted 11
C18_RerunWitness ==
    /\ runs = 2 /\ phase = "returned" /\ Image = <<OpLit, 10, OpLoop, 2>>
    /\ insCount = 0

\* Run returns an error on its third instruction with a count of 2
C18_ErrorWitness ==
    /\ phase = "returned" /\ err # "nil" /\ insCount = 2 /\ dispatched = 3

\* the last instruction was a wait that completed and in which only the
\* handler of port 5 had a request, selector sel
CapsQuery(sel) ==
    /\ Completed /\ PrevOp = OpWait /\ prev.Ports[0] # 1
    /\ prev.Ports[5] = sel /\ OthersIdle(5)

\* C19 as written: selector -5 returns the number of items on the data
\* stack and selector -6 the number of items on the address stack, 1 inside
\* a word called once from top level and 3 after two more pushes.
C19_Original ==
    /\ CapsQuery(-5) => Ports[5] = Depth(prev)
    /\ CapsQuery(-6) => Ports[5] = prev.rsp

\* inside the word called once from top level selector -6 answers 2
C19_Witness ==
    /\ CapsQuery(-6) /\ prev.rsp = 1 /\ prev.rtos = 4 /\ Ports[5] = 2

\* after two more pushes on the address stack it answers 4
C19_PushedWitness ==
    /\ CapsQuery(-6) /\ prev.rsp = 3 /\ prev.rtos = 15 /\ Ports[5] = 4

\* with two items on the data stack selector -5 answers 3
C19_DataWitness ==
    /\ CapsQuery(-5) /\ Depth(prev) = 2 /\ prev.Tos = 8 /\ Ports[5] = 3

\* C20 as written: selectors -16 and -17 return the data-stack and
\* address-stack capacities as configured with DataSize and AddressSize, 24
\* and 42 on an instance created with DataSize(24) and AddressSize(42).
C20_Original ==
    /\ (CapsQuery(-16) /\ prev.opts.dsize # 0) => Ports[5] = prev.opts.dsize
    /\ (CapsQuery(-17) /\ prev.opts.asize # 0) => Ports[5] = prev.opts.asize

\* created with DataSize(24), selector -16 answers the default size
C20_Witness ==
    /\ CapsQuery(-16) /\ opts.dsize = 24 /\ opts.asize = 42
    /\ Ports[5] = dataLen /\ Ports[5] # 24

C20_AddressWitness ==
    /\ CapsQuery(-17) /\ opts.dsize = 24 /\ opts.asize = 42
    /\ Ports[5] = addressLen /\ Ports[5] # 42

(***************************************************************************)
(* SetOptions(DataSize(n)) and SetOptions(AddressSize(n)) on an instance   *)
(* that already holds items.  st is the stack part of the instance: data   *)
(* and address are the slices i.data and i.address (cell k of the slice is *)
(* element k + 1 of the sequence), sp and rsp the stack pointers, tos and  *)
(* rtos the registers.                                                     *)
(***************************************************************************)
Zeros(n) == [k \in 1..n |-> 0]

\* copy(dst, src): the first min(len(dst), len(src)) cells of src over dst
Copy(dst, src) ==
    [k \in 1..Len(dst) |-> IF k <= Len(src) THEN src[k] ELSE dst[k]]

\* i.Push(v) and i.Rpush(v) on the stack part
StPush(st, v) ==
    [st EXCEPT !.sp = st.sp + 1, !.data[st.sp + 2] = st.tos, !.tos = v]
StRpush(st, v) ==
    [st EXCEPT !.rsp = st.rsp + 1, !.address[st.rsp + 2] = st.rtos, !.rtos = v]

RECURSIVE StPushAll(_, _)
StPushAll(st, vs) ==
    IF vs = << >> THEN st ELSE StPushAll(StPush(st, Head(vs)), Tail(vs))
RECURSIVE StRpushAll(_, _)
StRpushAll(st, vs) ==
    IF vs = << >> THEN st ELSE StRpushAll(StRpush(st, Head(vs)), Tail(vs))

\* the stacks of a new instance
NewSt ==
    [data |-> Zeros(dataLen), sp |-> 0, tos |-> 0,
     address |-> Zeros(addressLen), rsp |-> 0, rtos |-> 0, err |-> "nil"]

\* DataSize without the test of the requested size against i.sp
SetDataSize_noCheck(st, size) ==
    IF size + 1 <= Len(st.data)
    THEN [st EXCEPT !.data = SubSeq(st.data, 1, size + 1), !.err = "nil"]
    ELSE LET d == Zeros(size + 1)
         IN [st EXCEPT !.data = d,
                       !.address = Copy(st.address, SubSeq(d, 1, st.sp)),
                       !.err = "nil"]

\* the option returned by DataSize(size), applied to st
SetDataSize(st, size) ==
    IF size < st.sp THEN [st EXCEPT !.err = "too small"]
    ELSE IF size + 1 <= Len(st.data)
    THEN [st EXCEPT !.data = SubSeq(st.data, 1, size + 1), !.err = "nil"]
    ELSE LET d == Zeros(size + 1)
         IN [st EXCEPT !.data = d,
                       !.address = Copy(st.address, SubSeq(d, 1, st.sp)),
                       !.err = "nil"]

\* the option returned by AddressSize(size), applied to st
SetAddressSize(st, size) ==
    IF size < st.rsp THEN [st EXCEPT !.err = "too small"]
    ELSE IF size + 1 <= Len(st.address)
    THEN [st EXCEPT !.address = SubSeq(st.address, 1, size + 1), !.err = "nil"]
    ELSE LET a == Zeros(size + 1)
         IN [st EXCEPT !.address = Copy(a, SubSeq(a, 1, st.rsp)), !.err = "nil"]

\* the sizes requested
Sizes == 0..(dataLen + 1)

OptionsInit ==
    /\ InitInstance(New(<< >>))
    /\ \E n \in 0..MaxPushed, r \in 0..MaxPushed :
          lib = [kind |-> "options",
                 st |-> StRpushAll(StPushAll(NewSt, [k \in 1..n |-> 10 + k]),
                                   [k \in 1..r |-> 20 + k]),
                 before |-> NewSt, opt |-> "none", size |-> 0, calls |-> 0]

OptionCall(opt, size, st) ==
    /\ lib.calls < MaxCalls
    /\ lib' = [lib EXCEPT !.st = st, !.before = lib.st, !.opt = opt,
                          !.size = size, !.calls = lib.calls + 1]
    /\ UNCHANGED instanceVars

CallDataSize == \E size \in Sizes : OptionCall("DataSize", size, SetDataSize(lib.st, size))
CallAddressSize ==
    \E size \in Sizes : OptionCall("AddressSize", size, SetAddressSize(lib.st, size))

\* AddressSize(size) of vm.go on the slices themselves: the shrinking branch
\* stores i.address[:size] in i.data, the other one builds a slice it drops
AddressSizeSlices(st, size) ==
    IF size <= Len(st.address)
    THEN [st EXCEPT !.data = SubSeq(st.address, 1, size), !.err = "nil"]
    ELSE [st EXCEPT !.err = "nil"]
\* i.SetOptions(AddressSize(size)) with that option, once
CallAddressSizeVm ==
    /\ lib.calls = 0
    /\ \E size \in Sizes :
          lib' = [lib EXCEPT !.st = AddressSizeSlices(lib.st, size),
                             !.before = lib.st, !.opt = "AddressSize (vm.go)",
                             !.size = size, !.calls = MaxCalls]
    /\ UNCHANGED instanceVars

OptionsNext == CallDataSize \/ CallAddressSize \/ CallAddressSizeVm

OptionsSpec == OptionsInit /\ [][OptionsNext]_vars

\* the items of the data stack, oldest first: i.data[2..sp] and the Tos
\* register; likewise for the address stack
DataItems(st) ==
    [k \in 1..st.sp |-> IF k < st.sp /\ k + 2 <= Len(st.data) THEN st.data[k + 2]
                        ELSE IF k < st.sp THEN 0 ELSE st.tos]
AddressItems(st) ==
    [k \in 1..st.rsp |-> IF k < st.rsp /\ k + 2 <= Len(st.address) THEN st.address[k + 2]
                         ELSE IF k < st.rsp THEN 0 ELSE st.rtos]

OptionCalled(opt) == lib.kind = "options" /\ lib.opt = opt
SameStacks(a, b) == [a EXCEPT !.err = "nil"] = [b EXCEPT !.err = "nil"]

C21_EqualWitness ==
    /\ OptionCalled("DataSize") /\ lib.before.sp = 3 /\ lib.size = 3
    /\ lib.st.err = "nil" /\ DataItems(lib.st) = <<11, 12, 13>>
    /\ Len(lib.st.data) = 4

C21_AddressWitness ==
    /\ OptionCalled("AddressSize") /\ lib.before.rsp = 3 /\ lib.size = 2
    /\ lib.st.err = "too small" /\ AddressItems(lib.st) = <<21, 22, 23>>

\* C22 as written: after a successful DataSize or AddressSize, to a larger
\* capacity included, the resized stack holds the same items in the same
\* order with the same depth.
C22_Original ==
    /\ (OptionCalled("DataSize") /\ lib.st.err = "nil") =>
           lib.st.sp = lib.before.sp /\ DataItems(lib.st) = DataItems(lib.before)
    /\ (OptionCalled("AddressSize") /\ lib.st.err = "nil") =>
           lib.st.rsp = lib.before.rsp
               /\ AddressItems(lib.st) = AddressItems(lib.before)

\* DataSize to a larger capacity: the depth is 3 and the items below Tos
\* read 0
C22_Witness ==
    /\ OptionCalled("DataSize") /\ lib.st.err = "nil"
    /\ Len(lib.st.data) > Len(lib.before.data)
    /\ DataItems(lib.before) = <<11, 12, 13>> /\ DataItems(lib.st) = <<0, 0, 13>>

C22_AddressWitness ==
    /\ OptionCalled("AddressSize") /\ lib.st.err = "nil"
    /\ Len(lib.st.address) > Len(lib.before.address)
    /\ AddressItems(lib.before) = <<21, 22, 23>>
    /\ AddressItems(lib.st) = <<0, 0, 23>>

\* DataSize to a larger capacity also clears cells of the address stack
C22_ClobberWitness ==
    /\ OptionCalled("DataSize") /\ lib.st.err = "nil" /\ lib.calls = 1
    /\ AddressItems(lib.before) = <<21, 22, 23>>
    /\ AddressItems(lib.st) # AddressItems(lib.before)

\* ---------------------------------------------------------------------
\* Image files (Load, Save).  A file is a sequence of bytes; a file cell
\* is 4 or 8 bytes, little endian, two's complement.  A byte has ByteBits
\* bits, the fewest with which 8 bytes hold a Cell, so that a 32 bits file
\* cell is narrower than a Cell and a 64 bits one is at least as wide.

ByteBits == (CellBits + 7) \div 8
ByteMod == Pow2(ByteBits)

\* binary.LittleEndian.PutUint32 / PutUint64 of the n bytes of v
PutUint(v, n) == [k \in 1..n |-> (v \div Pow2(ByteBits * (k - 1))) % ByteMod]

\* binary.LittleEndian.Uint32 / Uint64 followed by the conversion to the
\* signed integer of the same width
RECURSIVE UintSum(_, _)
UintSum(b, k) ==
    IF k > Len(b) THEN 0 ELSE b[k] * Pow2(ByteBits * (k - 1)) + UintSum(b, k + 1)
Uint_unsigned(b) == UintSum(b, 1)
Uint(b) ==
    LET u == UintSum(b, 1)
        w == ByteBits * Len(b)
    IN IF u >= Pow2(w - 1) THEN u - Pow2(w) ELSE u

\* int32(v): keep the low bits of a 4 bytes file cell
Int32(v) ==
    LET w == ByteBits * 4
    IN ((v + Pow2(w - 1)) % Pow2(w)) - Pow2(w - 1)

\* the file system holds one path, absent or a file with its bytes;
\* room is the number of bytes the device accepts in that file
Absent == [exists |-> FALSE, bytes |-> << >>]
File(bytes) == [exists |-> TRUE, bytes |-> bytes]
Exists(file) == file.exists

\* os.File.Write
FileWrite(f, p, room) ==
    IF Len(f.bytes) + Len(p) <= room
    THEN [f EXCEPT !.bytes = f.bytes \o p]
    ELSE [f EXCEPT !.werr = TRUE]

\* bufio.Writer.Flush
Flush(f, room) ==
    IF f.werr \/ f.buf = << >> THEN f
    ELSE LET g == FileWrite(f, f.buf, room)
         IN IF g.werr THEN g ELSE [g EXCEPT !.buf = << >>]

\* bufio.Writer.Write: the error it returns is f.werr
RECURSIVE BufWrite(_, _, _)
BufWrite(f, p, room) ==
    IF f.werr THEN f
    ELSE IF Len(p) <= BufSize - Len(f.buf) THEN [f EXCEPT !.buf = f.buf \o p]
    ELSE IF f.buf = << >> THEN FileWrite(f, p, room)
    ELSE LET n == BufSize - Len(f.buf)
             g == Flush([f EXCEPT !.buf = f.buf \o SubSeq(p, 1, n)], room)
         IN BufWrite(g, SubSeq(p, n + 1, Len(p)), room)

\* the loop of case 32 / case 64 of Save from cell k on; the result carries
\* the value returned (ret) and the local variable err (err)
RECURSIVE SaveCells(_, _, _, _, _)
SaveCells(f, mem, k, n, room) ==
    IF k > Len(mem) THEN [f |-> f, ret |-> "nil", err |-> FALSE]
    ELSE IF n = 4 /\ Int32(mem[k]) # mem[k]
    THEN [f |-> f, ret |-> "too large", err |-> FALSE]
    ELSE LET g == BufWrite(f, PutUint(mem[k], n), room)
         IN IF g.werr THEN [f |-> g, ret |-> "write failed", err |-> TRUE]
            ELSE SaveCells(g, mem, k + 1, n, room)
\* Save(fileName, mem, cellBits): env.create tells whether os.Create
\* succeeds, env.room how much the device accepts.  The deferred function
\* flushes, closes, and removes the file when the local err is not nil.
SaveImage(file, mem, cellBits, env) ==
    IF ~env.create THEN [file |-> file, ret |-> "create failed"]
    ELSE LET f0 == [bytes |-> << >>, buf |-> << >>, werr |-> FALSE]
             bits == IF cellBits = 0 THEN NativeBits ELSE cellBits
             r == IF bits \in {32, 64}
                  THEN SaveCells(f0, mem, 1, bits \div 8, env.room)
                  ELSE [f |-> f0, ret |-> "unsupported", err |-> FALSE]
             g == Flush(r.f, env.room)
         IN [file |-> IF r.err THEN Absent ELSE File(g.bytes), ret |-> r.ret]

\* load32 / load64: the cells read from bytes, n bytes each, into a buffer
\* of cap cells
RECURSIVE LoadCells(_, _, _, _)
LoadCells(bytes, n, cells, cap) ==
    IF Len(cells) >= cap \/ bytes = << >> THEN [cells |-> cells, ret |-> "nil"]
    ELSE IF Len(bytes) < n THEN [cells |-> cells, ret |-> "cell read failed"]
    ELSE LET v == Uint(SubSeq(bytes, 1, n))
         IN IF n = 8 /\ Wrap(v) # v THEN [cells |-> cells, ret |-> "too large"]
            ELSE LoadCells(SubSeq(bytes, n + 1, Len(bytes)), n, Append(cells, v), cap)

\* Load(fileName, minSize, cellBits)
LoadImage(file, minSize, cellBits) ==
    LET bits == IF cellBits = 0 THEN NativeBits ELSE cellBits
        n == bits \div 8
    IN IF bits \notin {32, 64}
       THEN [mem |-> << >>, isNil |-> TRUE, fileCells |-> 0, ret |-> "unsupported"]
       ELSE IF ~Exists(file)
       THEN [mem |-> << >>, isNil |-> TRUE, fileCells |-> 0, ret |-> "open failed"]
       ELSE LET fileCells == Len(file.bytes) \div n
                imgCells == IF minSize > fileCells + FreeCells THEN minSize
                            ELSE fileCells + FreeCells
                r == LoadCells(file.bytes, n, << >>, imgCells)
            IN IF r.ret # "nil" \/ Len(r.cells) # fileCells
               THEN [mem |-> << >>, isNil |-> TRUE, fileCells |-> fileCells,
                     ret |-> "load failed"]
               ELSE [mem |-> r.cells \o Zeros(imgCells - fileCells), isNil |-> FALSE,
                     fileCells |-> fileCells, ret |-> "nil"]

\* Load(fileName, minSize) of the native cell width: binary.Read fills the
\* first fileCells cells and leaves what follows them in the file unread
LoadNative(file, minSize) ==
    IF ~Exists(file)
    THEN [mem |-> << >>, isNil |-> TRUE, fileCells |-> 0, ret |-> "open failed"]
    ELSE LET n == NativeBits \div 8
             fileCells == Len(file.bytes) \div n
             sz == IF minSize > fileCells THEN minSize ELSE fileCells + FreeCells
         IN [mem |-> [k \in 1..sz |->
                        IF k <= fileCells
                        THEN Wrap(Uint(SubSeq(file.bytes, (k - 1) * n + 1, k * n)))
                        ELSE 0],
             isNil |-> FALSE, fileCells |-> fileCells, ret |-> "nil"]
\* the calls made on image files: a Save, or none, and then a Load (a Load
\* leaves the file as it is)
CellValues == {0, -1, Pow2(4 * ByteBits - 1) - 1, Pow2(4 * ByteBits - 1), MinCell}
Images == SeqsUpTo(CellValues, MaxCells)
MaxFileLen == 8 * MaxCells + 1
InitFiles == {Absent} \cup {File([k \in 1..n |-> 1]) : n \in 0..MaxFileLen}
Rooms == {0, BufSize, 8 * MaxCells}
SaveEnvs ==
    {[create |-> FALSE, room |-> 0]} \cup {[create |-> TRUE, room |-> r] : r \in Rooms}
Widths == {0, 16, 32, 64}
MinSizes == 0..(MaxCells + FreeCells + 1)
NoSaved == [ok |-> FALSE, mem |-> << >>, bits |-> 0]

ImageInit ==
    /\ InitInstance(New(<< >>))
    /\ \E file \in InitFiles :
          lib = [kind |-> "image", file |-> file, op |-> "none",
                 bits |-> 0, minSize |-> 0, room |-> 0,
                 ret |-> "nil", mem |-> << >>, isNil |-> TRUE, fileCells |-> 0,
                 saved |-> NoSaved]

CallSave ==
    /\ lib.kind = "image"
    /\ lib.op = "none"
    /\ \E mem \in Images, bits \in Widths, env \in SaveEnvs :
          LET r == SaveImage(lib.file, mem, bits, env)
              n == (IF bits = 0 THEN NativeBits ELSE bits) \div 8
          IN lib' = [lib EXCEPT !.file = r.file, !.op = "save",
                                !.bits = bits, !.room = env.room, !.ret = r.ret,
                                !.saved = IF env.create
                                          THEN [ok |-> n * Len(mem) <= env.room,
                                                mem |-> mem, bits |-> bits]
                                          ELSE NoSaved]
    /\ UNCHANGED instanceVars

CallLoad ==
    /\ lib.kind = "image"
    /\ lib.op \in {"none", "save"}
    /\ \E minSize \in MinSizes, bits \in Widths :
          LET r == LoadImage(lib.file, minSize, bits)
          IN lib' = [lib EXCEPT !.op = "load", !.bits = bits, !.minSize = minSize,
                                !.ret = r.ret, !.mem = r.mem, !.isNil = r.isNil,
                                !.fileCells = r.fileCells]
    /\ UNCHANGED instanceVars

CallLoadNative ==
    /\ lib.kind = "image"
    /\ lib.op \in {"none", "save"}
    /\ \E minSize \in MinSizes :
          LET r == LoadNative(lib.file, minSize)
          IN lib' = [lib EXCEPT !.op = "loadnative", !.bits = 0, !.minSize = minSize,
                                !.ret = r.ret, !.mem = r.mem, !.isNil = r.isNil,
                                !.fileCells = r.fileCells]
    /\ UNCHANGED instanceVars

ImageNext == CallSave \/ CallLoad \/ CallLoadNative
ImageSpec == ImageInit /\ [][ImageNext]_vars

IsImage == lib.kind = "image"
\* v is an integer of w bits
FitsBits(v, w) == -Pow2((w \div 8) * ByteBits - 1) <= v /\ v < Pow2((w \div 8) * ByteBits - 1)
\* Save was called with a width of 32 or 64 bits and an image whose cells
\* fit in it, and created the file on a device with room for it
SavedFitting ==
    /\ IsImage /\ lib.saved.ok /\ lib.saved.bits \in {32, 64}
    /\ \A k \in 1..Len(lib.saved.mem) : FitsBits(lib.saved.mem[k], lib.saved.bits)
\* ... and the last call loaded the file with the width it was saved with
LoadedSaved == SavedFitting /\ lib.op = "load" /\ lib.bits = lib.saved.bits
MaxOf(a, b) == IF a > b THEN a ELSE b
Prefix(s, n) == IF n <= Len(s) THEN SubSeq(s, 1, n) ELSE s
ZeroTail(s, n) == \A k \in (n + 1)..Len(s) : s[k] = 0
\* the values of the first n file cells of w bits
FileValues(file, n, w) ==
    [k \in 1..n |-> Uint(SubSeq(file.bytes, (k - 1) * (w \div 8) + 1, k * (w \div 8)))]

\* C23: an image whose cells fit in W bits (W = 32, 64), saved and loaded
\* back with the same W, loads without error, file_cells is the length of
\* the image and the first file_cells cells of the buffer are the image
C23_RoundTrip ==
    /\ SavedFitting /\ lib.op = "save" => lib.ret = "nil" /\ Exists(lib.file)
    /\ LoadedSaved =>
           /\ lib.ret = "nil" /\ ~lib.isNil
           /\ lib.fileCells = Len(lib.saved.mem)
           /\ Prefix(lib.mem, lib.fileCells) = lib.saved.mem
C23_Witness ==
    /\ LoadedSaved /\ lib.bits = 32 /\ Len(lib.saved.mem) = MaxCells
    /\ lib.saved.mem[1] = -1 /\ lib.mem[1] = -1
C23_Witness64 ==
    /\ LoadedSaved /\ lib.bits = 64 /\ Len(lib.saved.mem) = MaxCells
    /\ lib.saved.mem[1] = MinCell /\ lib.mem[1] = MinCell

Saved == IsImage /\ lib.op = "save"
\* Save returned an error after os.Create had succeeded
SaveFailedAfterCreate == Saved /\ lib.ret \notin {"nil", "create failed"}

\* C24: whenever Save returns an error after having created the file (a
\* failed write, a cell that does not fit the width, an unsupported width),
\* the file no longer exists
C24_Original == SaveFailedAfterCreate => ~Exists(lib.file)
\* a cell that does not fit 32 bits: Save returns the error, the file stays
C24_Witness == Saved /\ lib.ret = "too large" /\ Exists(lib.file)
\* an unsupported width: the empty file stays
C24_UnsupportedWitness ==
    Saved /\ lib.ret = "unsupported" /\ lib.bits = 16 /\ lib.file = File(<< >>)
\* a failed write, the one error the deferred function sees: no file
C24_WriteFailedWitness == Saved /\ lib.ret = "write failed" /\ ~Exists(lib.file)

Loaded == IsImage /\ lib.op \in {"load", "loadnative"}
LoadedBits == IF lib.op = "loadnative" \/ lib.bits = 0 THEN NativeBits ELSE lib.bits
\* Load was called on an existing file with a width it supports
LoadedFile == Loaded /\ Exists(lib.file) /\ LoadedBits \in {32, 64}
FileCells == Len(lib.file.bytes) \div (LoadedBits \div 8)

\* C25: Load returns a buffer of exactly max(file_cells + 1024, min_capacity)
\* cells, the first file_cells cells are the values of the file and the
\* others are 0, for every size of the file and every min_capacity
C25_Original ==
    LoadedFile =>
        /\ ~lib.isNil
        /\ Len(lib.mem) = MaxOf(FileCells + FreeCells, lib.minSize)
        /\ \A k \in 1..FileCells :
              k <= Len(lib.mem) /\ lib.mem[k] = Wrap(FileValues(lib.file, FileCells, LoadedBits)[k])
        /\ ZeroTail(lib.mem, FileCells)
\* min_capacity between file_cells and file_cells + 1024: the Load of the
\* native width returns min_capacity cells
C25_Witness ==
    /\ LoadedFile /\ lib.op = "loadnative" /\ ~lib.isNil
    /\ FileCells < lib.minSize /\ lib.minSize < FileCells + FreeCells
    /\ Len(lib.mem) = lib.minSize
\* the Load with a width returns the larger of the two sizes there
C25_WidthWitness ==
    /\ LoadedFile /\ lib.op = "load" /\ ~lib.isNil /\ FileCells > 0
    /\ FileCells < lib.minSize /\ lib.minSize < FileCells + FreeCells
    /\ Len(lib.mem) = FileCells + FreeCells
\* a file that ends inside a cell: the Load with a width returns no buffer
C25_PartialWitness ==
    /\ LoadedFile /\ lib.op = "load" /\ lib.isNil /\ lib.ret = "load failed"
    /\ Len(lib.file.bytes) % (LoadedBits \div 8) # 0

\* ---------------------------------------------------------------------
\* The string codec of package retro (stringCodec.Decode, stringCodec.Encode)
\* on a slice mem; cell k of the slice is mem[k + 1].

\* Decode: nil and the empty slice are both the empty string
RECURSIVE DecodeFrom(_, _)
DecodeFrom(mem, k) ==
    IF k > Len(mem) \/ mem[k] = 0 THEN << >>
    ELSE <<mem[k] % 256>> \o DecodeFrom(mem, k + 1)
Decode(mem, start) ==
    IF start < 0 \/ start >= Len(mem) THEN << >> ELSE DecodeFrom(mem, start + 1)

\* Encode: the loop over the bytes of s from position pos, then the zero;
\* an index below 0 panics
RECURSIVE EncodeFrom(_, _, _)
EncodeFrom(mem, pos, s) ==
    IF s = << >> \/ pos >= Len(mem)
    THEN IF pos >= Len(mem) THEN [mem |-> mem, panic |-> FALSE]
         ELSE IF pos < 0 THEN [mem |-> mem, panic |-> TRUE]
         ELSE [mem |-> [mem EXCEPT ![pos + 1] = 0], panic |-> FALSE]
    ELSE IF pos < 0 THEN [mem |-> mem, panic |-> TRUE]
    ELSE EncodeFrom([mem EXCEPT ![pos + 1] = Head(s)], pos + 1, Tail(s))
\* Encode that stores every byte one cell late
Encode_shifted(mem, start, s) == EncodeFrom(mem, start + 1, s)
Encode(mem, start, s) == EncodeFrom(mem, start, s)

\* EncodeString(mem, start, s) of package vm, on the slice
EncodeStringSlice(mem, start, s) ==
    LET r == EncodeString([New(mem) EXCEPT !.Image = mem], start, s)
    IN [mem |-> r.Image, panic |-> r.panic # ""]

\* the calls made on a slice: an Encode, or none, and then a Decode
StrBytes == {0, 1, 65, 127}
Strings == SeqsUpTo(StrBytes, MaxStr)
Starts == (-1)..(MemLen + 1)
InitMems ==
    {[k \in 1..MemLen |-> -1],
     [k \in 1..MemLen |-> IF k = MemLen - 1 THEN 0 ELSE 256 + 65],
     [k \in 1..MemLen |-> 0]}
NoEnc == [valid |-> FALSE, start |-> 0, s |-> << >>, before |-> << >>, codec |-> "none"]

StringInit ==
    /\ InitInstance(New(<< >>))
    /\ \E mem \in InitMems :
          lib = [kind |-> "string", mem |-> mem, op |-> "none", start |-> 0,
                 out |-> << >>, panic |-> FALSE, enc |-> NoEnc]

CallEncode ==
    /\ lib.kind = "string"
    /\ lib.op = "none"
    /\ \E start \in Starts, s \in Strings :
          LET r == Encode(lib.mem, start, s)
          IN lib' = [lib EXCEPT !.mem = r.mem, !.op = "encode", !.start = start,
                                !.panic = r.panic,
                                !.enc = [valid |-> TRUE, start |-> start, s |-> s,
                                         before |-> lib.mem, codec |-> "retro"]]
    /\ UNCHANGED instanceVars

CallEncodeString ==
    /\ lib.kind = "string"
    /\ lib.op = "none"
    /\ \E start \in Starts, s \in Strings :
          LET r == EncodeStringSlice(lib.mem, start, s)
          IN lib' = [lib EXCEPT !.mem = r.mem, !.op = "encode", !.start = start,
                                !.panic = r.panic,
                                !.enc = [valid |-> TRUE, start |-> start, s |-> s,
                                         before |-> lib.mem, codec |-> "vm"]]
    /\ UNCHANGED instanceVars

CallDecode ==
    /\ lib.kind = "string"
    /\ lib.op \in {"none", "encode"}
    /\ ~lib.panic
    /\ \E start \in Starts :
          lib' = [lib EXCEPT !.op = "decode", !.start = start,
                             !.out = Decode(lib.mem, start)]
    /\ UNCHANGED instanceVars

StringNext == CallEncode \/ CallEncodeString \/ CallDecode
StringSpec == StringInit /\ [][StringNext]_vars

IsStringLib == lib.kind = "string"
\* a zero-terminated ASCII string: bytes from 1 to 127
IsAscii(s) == \A k \in 1..Len(s) : s[k] >= 1 /\ s[k] <= 127
\* s was encoded at a position of the slice with more cells after it than
\* s has bytes
EncodedInTail ==
    /\ IsStringLib /\ lib.enc.valid /\ IsAscii(lib.enc.s)
    /\ lib.enc.start >= 0 /\ Len(lib.enc.s) < Len(lib.mem) - lib.enc.start
\* ... and then decoded at the same position
DecodedThere == EncodedInTail /\ lib.op = "decode" /\ lib.start = lib.enc.start

\* C26: an ASCII string s shorter than the free tail of mem after position
\* p, encoded at p and then decoded at p, comes back as exactly s
C26_RoundTrip ==
    /\ EncodedInTail => ~lib.panic
    /\ DecodedThere => lib.out = lib.enc.s
C26_Witness ==
    /\ DecodedThere /\ lib.enc.codec = "retro" /\ Len(lib.enc.s) = MaxStr
    /\ lib.enc.start = 1 /\ lib.out = lib.enc.s /\ lib.enc.before[1] = 256 + 65
C26_VmWitness ==
    /\ DecodedThere /\ lib.enc.codec = "vm" /\ Len(lib.enc.s) = MaxStr
    /\ lib.enc.start = MemLen - MaxStr - 1 /\ lib.out = lib.enc.s
\* a string with a zero byte inside is not a zero-terminated string: what is
\* decoded ends at that byte
C26_ZeroByteDiffers ==
    /\ IsStringLib /\ lib.op = "decode" /\ lib.enc.valid /\ lib.start = lib.enc.start
    /\ lib.enc.s = <<65, 0, 65>> /\ lib.out = <<65>>

Encoded == IsStringLib /\ lib.op = "encode" /\ lib.enc.valid
\* cell k of the slice after an Encode of s at start, given the slice before
EncodedCell(before, start, s, k) ==
    IF k >= start /\ k < start + Len(s) THEN s[k - start + 1]
    ELSE IF k = start + Len(s) THEN 0
    ELSE before[k + 1]

\* C27: encode_string never writes outside the slice and never fails: for
\* any start and any string it writes the bytes that fit, the terminating
\* zero only if a cell remains, and leaves every cell before start unchanged
C27_Original ==
    Encoded =>
        /\ ~lib.panic
        /\ Len(lib.mem) = Len(lib.enc.before)
        /\ \A k \in 0..(Len(lib.mem) - 1) :
              lib.mem[k + 1] = EncodedCell(lib.enc.before, lib.enc.start, lib.enc.s, k)
\* a start below 0: stringCodec.Encode panics
C27_Witness ==
    /\ Encoded /\ lib.enc.codec = "retro" /\ lib.enc.start = -1
    /\ lib.enc.s = <<65>> /\ lib.panic
\* a string that reaches the end of the slice: stringCodec.Encode keeps the
\* bytes that fit and writes no zero
C27_TruncatedWitness ==
    /\ Encoded /\ lib.enc.codec = "retro" /\ lib.enc.start = MemLen - 1
    /\ Len(lib.enc.s) = MaxStr /\ ~lib.panic
    /\ lib.mem[MemLen] = lib.enc.s[1] /\ lib.mem[MemLen] # 0
    /\ SubSeq(lib.mem, 1, MemLen - 1) = SubSeq(lib.enc.before, 1, MemLen - 1)
\* the same call on EncodeString of package vm panics
C27_VmEdgeWitness ==
    /\ Encoded /\ lib.enc.codec = "vm" /\ lib.enc.start = MemLen - 1
    /\ Len(lib.enc.s) = MaxStr /\ lib.panic

\* ---------------------------------------------------------------------
\* The assembler (parser.Parse, parser.makeLabelRef, Assemble).  A token is
\* what the scanner and the first switch of Parse make of a word: an
\* integer, a label definition (s is the text after the colon), a dot
\* directive, or a word that is an opcode or a label reference.

IntTok(v) == [k |-> "int", s |-> "", v |-> v]
DefTok(s) == [k |-> "def", s |-> s, v |-> 0]
DotTok(s) == [k |-> "dot", s |-> s, v |-> 0]
WordTok(s) == [k |-> "word", s |-> s, v |-> 0]

\* strconv.Atoi on the names used: the number, or ok = FALSE
isLocalLabel(name) ==
    CASE name = "1" -> [n |-> 1, ok |-> TRUE]
      [] name = "01" -> [n |-> 1, ok |-> TRUE]
      [] name = "2" -> [n |-> 2, ok |-> TRUE]
      [] OTHER -> [n |-> 0, ok |-> FALSE]
LocalNums == {1, 2}

\* name[len(name)-1] and name[:len(name)-1] of the words that end with + or -
Look(w) ==
    CASE w \in {"1+", "01+", "2+"} -> "+"
      [] w \in {"1-", "01-", "2-"} -> "-"
      [] OTHER -> ""
Stem(w) ==
    CASE w \in {"1+", "1-"} -> "1"
      [] w \in {"01+", "01-"} -> "01"
      [] w \in {"2+", "2-"} -> "2"
      [] OTHER -> w

\* the names of the opcodes (the first name of each entry of the table)
opcodes ==
    <<"nop", "lit", "dup", "drop", "swap", "push", "pop", "loop", "jump", ";",
      ">jump", "<jump", "!jump", "=jump", "@", "!", "+", "-", "*", "/mod",
      "and", "or", "xor", "<<", ">>", "0;", "1+", "1-", "in", "out", "wait">>
\* opcodeIndex: the map built by init() from the table
IsOpcodeWord(w) == \E k \in 1..Len(opcodes) : opcodes[k] = w
opcodeIndex(w) ==
    IF IsOpcodeWord(w) THEN (CHOOSE k \in 1..Len(opcodes) : opcodes[k] = w) - 1
    ELSE OpNop

\* the key of a label in p.labels: the name, and for a local label the
\* index the name is suffixed with (name + localSep + index); 0 otherwise
Key(name, idx) == [name |-> name, idx |-> idx]

newParser ==
    [i |-> << >>, alloc |-> FALSE, pc |-> 0, labels |-> << >>,
     locCtr |-> [n \in LocalNums |-> 0], errs |-> << >>, state |-> 0,
     panic |-> FALSE,
     defs |-> << >>, refs |-> << >>, sites |-> << >>]

\* p.error
error(p, msg) == [p EXCEPT !.errs = Append(p.errs, msg)]
\* p.abort
abort(p) == Len(p.errs) >= maxErrors

\* p.write: the image grows as needed; a negative address panics
write(p, v) ==
    IF p.panic THEN p
    ELSE IF p.pc < 0 THEN [p EXCEPT !.panic = TRUE]
    ELSE LET grown == IF p.pc >= Len(p.i)
                      THEN p.i \o [k \in 1..(p.pc + 1 - Len(p.i)) |-> 0]
                      ELSE p.i
         IN [p EXCEPT !.i = [grown EXCEPT ![p.pc + 1] = v], !.alloc = TRUE,
                      !.pc = p.pc + 1]

HasLabel(p, key) == \E k \in 1..Len(p.labels) : p.labels[k].key = key
LabelIndex(p, key) == CHOOSE k \in 1..Len(p.labels) : p.labels[k].key = key
\* p.labels[key] = &label{labelSite{pos, address}, nil}
AddLabel(p, key, addr) ==
    [p EXCEPT !.labels = Append(p.labels, [key |-> key, address |-> addr,
                                           uses |-> << >>])]
\* lbl.uses = append(lbl.uses, labelSite{pos, p.pc})
AddUse(p, key) ==
    [p EXCEPT !.labels[LabelIndex(p, key)].uses =
                  Append(p.labels[LabelIndex(p, key)].uses, p.pc)]

\* makeLabelRef(name)
makeLabelRef(p, w) ==
    LET look == Look(w)
        loc == IF look # "" THEN isLocalLabel(Stem(w)) ELSE [n |-> 0, ok |-> FALSE]
        name == IF loc.ok THEN Stem(w) ELSE w
        ref == [name |-> name, look |-> IF loc.ok THEN look ELSE "",
                at |-> p.pc, ndefs |-> Len(p.defs)]
        q == [p EXCEPT !.refs = Append(p.refs, ref)]
    IN IF loc.ok /\ look = "-"
       THEN LET key == Key(name, p.locCtr[loc.n])
            IN IF ~HasLabel(q, key)
               THEN error(q, "Backward reference to undefined local label")
               ELSE AddUse(q, key)
       ELSE LET key == IF loc.ok THEN Key(name, p.locCtr[loc.n] + 1) ELSE Key(name, 0)
            IN IF HasLabel(q, key) THEN AddUse(q, key)
               ELSE AddUse(AddLabel(q, key, -1), key)

\* case scanner.Int
ParseInt(p, v) ==
    LET q == CASE p.state = 2 -> [p EXCEPT !.pc = v]
               [] p.state = 3 -> p
               [] p.state = 0 -> write(write(p, OpLit), v)
               [] OTHER -> write(p, v)
    IN [q EXCEPT !.state = 0]

\* case ':'
ParseDef(p, n) ==
    LET p0 == IF p.state # 0
              THEN [error(p, "Unexpected label definition as argument") EXCEPT !.state = 0]
              ELSE p
        loc == isLocalLabel(n)
        idx == IF loc.ok THEN p0.locCtr[loc.n] + 1 ELSE 0
        p1 == IF loc.ok THEN [p0 EXCEPT !.locCtr[loc.n] = idx] ELSE p0
        key == Key(n, idx)
        p2 == [p1 EXCEPT !.defs = Append(p1.defs, [name |-> n, address |-> p1.pc])]
    IN IF n = "" THEN error(p0, "Empty label name")
       ELSE IF HasLabel(p2, key)
       THEN LET l == p2.labels[LabelIndex(p2, key)]
                p3 == IF l.address # -1 THEN error(p2, "Label redefinition") ELSE p2
            IN [p3 EXCEPT !.labels[LabelIndex(p2, key)].address = p2.pc]
       ELSE AddLabel(p2, key, p2.pc)

\* case '.'
ParseDot(p, s) ==
    LET p0 == IF p.state # 0
              THEN [error(p, "Unexpected directive as argument") EXCEPT !.state = 0]
              ELSE p
    IN CASE s = ".org" -> [p0 EXCEPT !.state = 2]
         [] s = ".dat" -> [p0 EXCEPT !.state = 1]
         [] OTHER -> error(p0, "Unknown dot directive")

\* the implicit call below address 31: lit, the address of the last cell of
\* the sequence, push, jump
CallPrefix_short(p) ==
    LET p1 == write(p, OpLit)
    IN write(write(write(p1, p1.pc + 2), OpPush), OpJump)
CallPrefix(p) ==
    LET p1 == write(p, OpLit)
    IN write(write(write(p1, p1.pc + 3), OpPush), OpJump)

\* default: an opcode or a label reference
ParseWord(p, s) ==
    IF p.state >= 2
    THEN [error(p, "Unexpected label as directive argument") EXCEPT !.state = 0]
    ELSE IF p.state = 0 /\ IsOpcodeWord(s)
    THEN LET q == write(p, opcodeIndex(s))
         IN IF opcodeIndex(s) \in {OpLit, OpLoop, OpJump, OpGtJump, OpLtJump,
                                   OpNeJump, OpEqJump}
            THEN [q EXCEPT !.state = 1] ELSE q
    ELSE LET bare == p.state = 0
             p1 == IF bare /\ p.pc < 31 THEN CallPrefix(p) ELSE p
             p2 == IF bare
                   THEN [p1 EXCEPT !.sites = Append(p1.sites,
                            [at |-> p.pc, ref |-> p1.pc, name |-> s,
                             cells |-> p1.pc - p.pc + 1])]
                   ELSE p1
         IN [write(makeLabelRef(p2, s), 0) EXCEPT !.state = 0]

\* the body of the loop of Parse for one token
ParseToken(p, tok) ==
    CASE tok.k = "int" -> ParseInt(p, tok.v)
      [] tok.k = "def" -> ParseDef(p, tok.s)
      [] tok.k = "dot" -> ParseDot(p, tok.s)
      [] OTHER -> ParseWord(p, tok.s)

\* the uses of labels that have no definition
RECURSIVE UndefinedUses(_, _)
UndefinedUses(p, k) ==
    IF k > Len(p.labels) THEN 0
    ELSE (IF p.labels[k].address = -1 THEN Len(p.labels[k].uses) ELSE 0)
         + UndefinedUses(p, k + 1)

\* the loop that writes the labels: an error for every use of a label with
\* no definition, until p.abort() after one of them
WriteLabels(p) ==
    LET u == UndefinedUses(p, 1)
        n == IF u = 0 THEN 0
             ELSE IF abort(p) THEN 1
             ELSE IF Len(p.errs) + u > maxErrors THEN maxErrors - Len(p.errs)
             ELSE u
        patched == [a \in 1..Len(p.i) |->
                      IF \E k \in 1..Len(p.labels) : \E j \in 1..Len(p.labels[k].uses) :
                            p.labels[k].uses[j] = a - 1
                      THEN (LET k == CHOOSE kk \in 1..Len(p.labels) :
                                        \E j \in 1..Len(p.labels[kk].uses) :
                                            p.labels[kk].uses[j] = a - 1
                            IN p.labels[k].address)
                      ELSE p.i[a]]
    IN [p EXCEPT !.i = patched,
                 !.errs = p.errs \o [k \in 1..n |-> "Undefined label"]]

\* what Parse, and Assemble after it, return once the source is read:
\* (nil, errs), or (p.i[:p.pc], nil); the slice expression panics when
\* p.pc is beyond the capacity of p.i
EndParse(p) ==
    LET q == WriteLabels(p)
    IN IF Len(q.errs) > 0 THEN [img |-> << >>, isNil |-> TRUE, errs |-> q.errs,
                                panic |-> FALSE]
       ELSE IF q.pc < 0 \/ (~q.alloc /\ q.pc > 0)
       THEN [img |-> << >>, isNil |-> TRUE, errs |-> << >>, panic |-> TRUE]
       ELSE [img |-> [a \in 1..q.pc |-> IF a <= Len(q.i) THEN q.i[a] ELSE 0],
             isNil |-> FALSE, errs |-> << >>, panic |-> FALSE]
\* the source texts: the tokens come from one of three vocabularies
Vocab(v) ==
    CASE v = "calls" ->
            {DotTok(".org"), IntTok(31), WordTok("foo"), DefTok("foo"), WordTok(";")}
      [] v = "locals" ->
            {DefTok("1"), DefTok("01"), WordTok("jump"), WordTok("1-"), WordTok("1+"),
             WordTok("2+")}
      [] OTHER ->
            {DotTok(".zoo"), DefTok(""), WordTok("lit"), WordTok("foo"), DefTok("foo")}
Vocabs == {"calls", "locals", "errors"}

NoResult == [img |-> << >>, isNil |-> TRUE, errs |-> << >>, panic |-> FALSE]
NoStep == [pc |-> -1, op |-> OpNop, rtos |-> 0]
NoEntry == [active |-> FALSE, at |-> 0, sp |-> 0, Tos |-> 0, rsp |-> 0]

AsmInit ==
    /\ InitInstance(New(<< >>))
    /\ \E v \in Vocabs :
          lib = [kind |-> "asm", vocab |-> v, src |-> << >>, p |-> newParser,
                 phase |-> "parse", res |-> NoResult, m |-> New(<< >>),
                 steps |-> 0, last |-> NoStep, entry |-> NoEntry]

\* one turn of the loop of Parse
Token ==
    /\ lib.kind = "asm" /\ lib.phase = "parse"
    /\ ~abort(lib.p) /\ ~lib.p.panic
    /\ Len(lib.src) < MaxToks
    /\ \E tok \in Vocab(lib.vocab) :
          lib' = [lib EXCEPT !.src = Append(lib.src, tok),
                             !.p = ParseToken(lib.p, tok)]
    /\ UNCHANGED instanceVars

\* the end of the source text, or the parser giving up: Assemble returns
Eof ==
    /\ lib.kind = "asm" /\ lib.phase = "parse" /\ ~lib.p.panic
    /\ LET r == EndParse(lib.p)
       IN lib' = [lib EXCEPT !.phase = "done", !.res = r,
                             !.m = IF r.isNil THEN New(<< >>) ELSE New(r.img)]
    /\ UNCHANGED instanceVars

\* the 5 cells sequences of the source
LongSites(p) == {p.sites[k] : k \in {j \in 1..Len(p.sites) : p.sites[j].cells = 5}}

\* one instruction of the assembled image, run from address 0
VmStep ==
    /\ lib.kind = "asm" /\ lib.phase \in {"done", "run"}
    /\ ~lib.res.isNil /\ Ok(lib.m) /\ InImage(lib.m, lib.m.PC)
    /\ lib.steps < MaxSteps
    /\ LET m == lib.m
           op == ImageAt(m, m.PC)
       IN /\ op \notin {OpIn, OpOut, OpWait}
          /\ lib' = [lib EXCEPT
                !.phase = "run",
                !.m = Exec(m, op, << >>, NoEnv),
                !.steps = lib.steps + 1,
                !.last = [pc |-> m.PC, op |-> op, rtos |-> m.rtos],
                !.entry = IF \E st \in LongSites(lib.p) : st.at = m.PC
                          THEN [active |-> TRUE, at |-> m.PC, sp |-> m.sp,
                                Tos |-> m.Tos, rsp |-> m.rsp]
                          ELSE IF lib.entry.active /\ m.PC \in (lib.entry.at + 1)..(lib.entry.at + 3)
                          THEN lib.entry
                          ELSE NoEntry]
    /\ UNCHANGED instanceVars

AsmNext == Token \/ Eof \/ VmStep
AsmSpec == AsmInit /\ [][AsmNext]_vars

IsAsm == lib.kind = "asm"
Assembled == IsAsm /\ lib.phase \in {"done", "run"} /\ ~lib.res.isNil
AsmFailed == IsAsm /\ lib.phase = "done" /\ lib.res.isNil /\ ~lib.res.panic
\* the address of the definition of a label that is not local
GlobalDefined(name) == \E k \in 1..Len(lib.p.defs) : lib.p.defs[k].name = name
GlobalAddress(name) ==
    lib.p.defs[CHOOSE k \in 1..Len(lib.p.defs) : lib.p.defs[k].name = name].address
CellAt(a) == IF a >= 0 /\ a < Len(lib.res.img) THEN lib.res.img[a + 1] ELSE -1
\* the cells of the reference are in the image returned, which ends at the
\* last compile address (a later .org can set it below the reference)
Returned(st) == st.ref < Len(lib.res.img)
\* the cells of a bare reference: one cell from address 31 on, five below
SiteCells(st) ==
    IF st.at >= 31
    THEN st.cells = 1 /\ (GlobalDefined(st.name) => CellAt(st.at) = GlobalAddress(st.name))
    ELSE /\ st.cells = 5
         /\ CellAt(st.at) = OpLit /\ CellAt(st.at + 1) = st.at + 4
         /\ CellAt(st.at + 2) = OpPush /\ CellAt(st.at + 3) = OpJump
         /\ (GlobalDefined(st.name) => CellAt(st.at + 4) = GlobalAddress(st.name))
\* the instruction just run was the jump of a sequence run from its start
JumpedFrom(st) ==
    /\ st.cells = 5 /\ lib.entry.active /\ lib.entry.at = st.at
    /\ lib.last.pc = st.at + 3 /\ lib.last.op = OpJump
\* the instruction just run was a return to the address the sequence pushed
ReturnedTo(st) ==
    /\ st.cells = 5 /\ lib.last.op = OpReturn /\ lib.last.rtos = st.at + 4
    /\ lib.last.pc >= 0 /\ Ok(lib.m)

\* C28: a bare label reference is one cell holding the address of the label
\* when the compile address is 31 or more, and lit addr push jump label
\* below 31; the sequence is a call: the callee is entered with the address
\* of the last cell of the sequence on the address stack and the data stack
\* as it was, and when it returns execution continues right after the
\* sequence
C28_ImplicitCall ==
    Assembled =>
        \A k \in 1..Len(lib.p.sites) :
            LET st == lib.p.sites[k]
            IN /\ Returned(st) => SiteCells(st)
               /\ lib.phase = "run" /\ JumpedFrom(st) =>
                     /\ Ok(lib.m) /\ lib.m.PC = CellAt(st.at + 4)
                     /\ lib.m.rtos = st.at + 4 /\ lib.m.rsp = lib.entry.rsp + 1
                     /\ lib.m.sp = lib.entry.sp /\ lib.m.Tos = lib.entry.Tos
               /\ lib.phase = "run" /\ ReturnedTo(st) => lib.m.PC = st.at + 5
C28_Witness ==
    /\ Assembled /\ lib.phase = "run" /\ Len(lib.p.sites) = 1
    /\ ReturnedTo(lib.p.sites[1]) /\ lib.p.sites[1].at = 0 /\ lib.m.PC = 5
    /\ lib.src = <<WordTok("foo"), DefTok("foo"), WordTok(";")>>
C28_JumpWitness ==
    /\ Assembled /\ lib.phase = "run" /\ Len(lib.p.sites) = 1
    /\ JumpedFrom(lib.p.sites[1]) /\ lib.m.rtos = 4
C28_SingleCellWitness ==
    /\ Assembled /\ lib.phase = "run" /\ Len(lib.p.sites) = 1
    /\ lib.p.sites[1].at = 31 /\ lib.p.sites[1].cells = 1 /\ CellAt(31) = 32
    /\ lib.last.op = OpReturn /\ lib.last.rtos = 31 /\ lib.m.PC = 32

AsmDone == IsAsm /\ lib.phase = "done"
LocalRefs == {k \in 1..Len(lib.p.refs) : lib.p.refs[k].look # ""}
\* the definitions of :N a reference N- or N+ can mean: those before it, or
\* those after it
Candidates(r) ==
    {d \in 1..Len(lib.p.defs) :
        /\ lib.p.defs[d].name = r.name
        /\ IF r.look = "-" THEN d <= r.ndefs ELSE d > r.ndefs}
\* the reference has a definition to resolve to
HasDefinition(r) ==
    IF r.look # "" THEN Candidates(r) # {} ELSE GlobalDefined(r.name)
\* the nearest of them
Nearest(r) ==
    IF r.look = "-" THEN CHOOSE d \in Candidates(r) : \A e \in Candidates(r) : e <= d
    ELSE CHOOSE d \in Candidates(r) : \A e \in Candidates(r) : d <= e
ReferenceErrors ==
    {k \in 1..Len(lib.res.errs) :
        lib.res.errs[k] \in {"Backward reference to undefined local label",
                             "Undefined label"}}

\* C29: for a numeric label N defined any number of times, N+ resolves to
\* the address of the nearest definition of :N after the reference and N-
\* to the nearest one before it; a reference with no such definition is
\* reported as an error
C29_Original ==
    AsmDone =>
        /\ (\A k \in 1..Len(lib.p.refs) : HasDefinition(lib.p.refs[k]))
              => ReferenceErrors = {}
        /\ (\E k \in LocalRefs : Candidates(lib.p.refs[k]) = {}) => lib.res.errs # << >>
        /\ ~lib.res.isNil =>
              \A k \in LocalRefs :
                  /\ Candidates(lib.p.refs[k]) # {}
                  /\ CellAt(lib.p.refs[k].at) = lib.p.defs[Nearest(lib.p.refs[k])].address
\* :1 :01 jump 1-  -- the definition of :1 precedes the reference and the
\* assembler reports a backward reference to an undefined label
C29_Witness ==
    /\ AsmDone
    /\ lib.src = <<DefTok("1"), DefTok("01"), WordTok("jump"), WordTok("1-")>>
    /\ lib.res.isNil
    /\ lib.res.errs = <<"Backward reference to undefined local label">>
\* jump 1+ :01 :1  -- the definition of :1 follows and is not found
C29_ForwardWitness ==
    /\ AsmDone
    /\ lib.src = <<WordTok("jump"), WordTok("1+"), DefTok("01"), DefTok("1")>>
    /\ lib.res.errs = <<"Undefined label">>
\* with one spelling of the number the references resolve to the nearest
\* definitions
C29_ResolvedWitness ==
    /\ AsmDone /\ ~lib.res.isNil
    /\ lib.src = <<DefTok("1"), WordTok("jump"), WordTok("1+"), DefTok("1"), WordTok("2+")>> \/
       lib.src = <<DefTok("1"), DefTok("1"), WordTok("jump"), WordTok("1-")>>
    /\ \A k \in LocalRefs :
          CellAt(lib.p.refs[k].at) = lib.p.defs[Nearest(lib.p.refs[k])].address

\* C30: when Assemble fails it returns a nil image and an ErrAsm of at
\* least one and at most 10 entries, whatever the errors of the source
C30_Original ==
    AsmFailed => Len(lib.res.errs) >= 1 /\ Len(lib.res.errs) <= maxErrors
\* the parser gave up after maxErrors errors and a use of a label without
\* definition adds one more
C30_Witness ==
    /\ AsmFailed /\ Len(lib.res.errs) = maxErrors + 1
    /\ lib.src[1] = WordTok("foo") /\ lib.res.errs[maxErrors + 1] = "Undefined label"
\* one token that adds two errors to maxErrors - 1
C30_TwoErrorsWitness ==
    /\ AsmFailed /\ Len(lib.res.errs) = maxErrors + 1
    /\ lib.res.errs[maxErrors] = "Unexpected label definition as argument"
    /\ lib.res.errs[maxErrors + 1] = "Empty label name"


\* ---------------------------------------------------------------------
\* The disassembler (Disassemble) and the text it writes, read back by
\* Assemble.  A text is the sequence of its words, in the order written;
\* a number is kept as its sign and its decimal digits.

NumWord(neg, digits) == [k |-> "num", s |-> "", neg |-> neg, digits |-> digits]
NameWord(s) == [k |-> "name", s |-> s, neg |-> FALSE, digits |-> << >>]
CommentWord == [k |-> "comment", s |-> "", neg |-> FALSE, digits |-> << >>]

RECURSIVE Digits(_)
Digits(n) == IF n < 10 THEN <<n>> ELSE Append(Digits(n \div 10), n % 10)
\* strconv.AppendInt(b, int64(int(v)), 10)
AppendInt(v) == NumWord(v < 0, Digits(IF v < 0 THEN -v ELSE v))

RECURSIVE DigitsValue(_, _)
DigitsValue(ds, base) ==
    IF Len(ds) = 0 THEN 0
    ELSE DigitsValue(SubSeq(ds, 1, Len(ds) - 1), base) * base + ds[Len(ds)]
\* strconv.ParseInt(s, 0, bits): a leading 0 makes the number octal; a digit
\* out of the base or a value out of the range of a Cell is an error
strconvParseInt(w) ==
    LET base == IF Len(w.digits) > 1 /\ w.digits[1] = 0 THEN 8 ELSE 10
        ds == IF base = 8 THEN Tail(w.digits) ELSE w.digits
        abs == DigitsValue(ds, base)
        v == IF w.neg THEN -abs ELSE abs
    IN IF Len(w.digits) = 0 \/ (\E k \in 1..Len(ds) : ds[k] >= base)
          \/ v < MinCell \/ v > MaxCell
       THEN [ok |-> FALSE, v |-> 0]
       ELSE [ok |-> TRUE, v |-> v]

\* Disassemble(i, pc, w): the words written and the position of the next
\* opcode
HasArgument(op) == op \in {OpLoop, OpJump, OpGtJump, OpLtJump, OpNeJump, OpEqJump}
Disassemble_noArg(i, pc) ==
    LET op == i[pc + 1]
        head == IF op < 0 \/ op >= Len(opcodes)
                THEN <<NameWord(".dat"), AppendInt(op), CommentWord>>
                ELSE IF op # OpLit THEN <<NameWord(opcodes[op + 1])>>
                ELSE << >>
    IN IF op = OpLit
       THEN IF pc + 1 < Len(i)
            THEN [next |-> pc + 2, words |-> Append(head, AppendInt(i[pc + 2]))]
            ELSE [next |-> pc + 1, words |-> Append(head, NameWord("???"))]
       ELSE IF HasArgument(op)
       THEN IF pc + 1 < Len(i)
            THEN [next |-> pc + 2, words |-> head]
            ELSE [next |-> pc + 1, words |-> Append(head, NameWord("???"))]
       ELSE [next |-> pc + 1, words |-> head]
Disassemble(i, pc) ==
    LET op == i[pc + 1]
        head == IF op < 0 \/ op >= Len(opcodes)
                THEN <<NameWord(".dat"), AppendInt(op), CommentWord>>
                ELSE IF op # OpLit THEN <<NameWord(opcodes[op + 1])>>
                ELSE << >>
    IN IF HasArgument(op) \/ op = OpLit
       THEN IF pc + 1 < Len(i)
            THEN [next |-> pc + 2, words |-> Append(head, AppendInt(i[pc + 2]))]
            ELSE [next |-> pc + 1, words |-> Append(head, NameWord("???"))]
       ELSE [next |-> pc + 1, words |-> head]

\* the first switch of Parse on a word of the text: an integer when
\* strconv.ParseInt accepts it, else the word as it is
ScanWord(w) ==
    IF w.k = "num"
    THEN (LET r == strconvParseInt(w)
          IN IF r.ok THEN IntTok(r.v) ELSE WordTok("???"))
    ELSE IF w.s = ".dat" THEN DotTok(".dat")
    ELSE WordTok(w.s)

\* the loop of Parse over a text; a comment is skipped
RECURSIVE ParseWords(_, _, _)
ParseWords(p, text, k) ==
    IF k > Len(text) \/ abort(p) \/ p.panic THEN p
    ELSE IF text[k].k = "comment" THEN ParseWords(p, text, k + 1)
    ELSE ParseWords(ParseToken(p, ScanWord(text[k])), text, k + 1)
\* Assemble(name, r)
Assemble(text) == EndParse(ParseWords(newParser, text, 1))

\* the images: sequences of instructions, of data cells and of opcodes
\* that lack their argument
ArgValues == {MinCell, 10}
ArgOps == {OpLit, OpLoop, OpJump, OpGtJump, OpLtJump, OpNeJump, OpEqJump}
Pieces ==
    {<<op>> : op \in (0..30) \cup {-1, 31}}
        \cup {<<op, v>> : op \in ArgOps, v \in ArgValues}
RECURSIVE Flatten(_)
Flatten(ps) == IF Len(ps) = 0 THEN << >> ELSE Head(ps) \o Flatten(Tail(ps))
MaxPieces == 2
DisImages == {Flatten(ps) : ps \in UNION {[1..n -> Pieces] : n \in 0..MaxPieces}}

DisInit ==
    /\ InitInstance(New(<< >>))
    /\ \E img \in DisImages :
          lib = [kind |-> "disasm", img |-> img, pc |-> 0, text |-> << >>,
                 phase |-> "dis", res |-> NoResult]

\* one call of Disassemble, at the position the previous one returned
CallDisassemble ==
    /\ lib.kind = "disasm" /\ lib.phase = "dis" /\ lib.pc < Len(lib.img)
    /\ LET d == Disassemble(lib.img, lib.pc)
       IN lib' = [lib EXCEPT !.pc = d.next, !.text = lib.text \o d.words]
    /\ UNCHANGED instanceVars

\* Assemble on the whole text
CallAssemble ==
    /\ lib.kind = "disasm" /\ lib.phase = "dis" /\ lib.pc >= Len(lib.img)
    /\ lib' = [lib EXCEPT !.phase = "asm", !.res = Assemble(lib.text)]
    /\ UNCHANGED instanceVars

DisNext == CallDisassemble \/ CallAssemble
DisSpec == DisInit /\ [][DisNext]_vars

\* an image made of opcodes that have their argument
RECURSIVE WellFormedFrom(_, _)
WellFormedFrom(i, pc) ==
    IF pc >= Len(i) THEN TRUE
    ELSE IF i[pc + 1] < 0 \/ i[pc + 1] > 30 THEN FALSE
    ELSE IF i[pc + 1] \in ArgOps
    THEN pc + 1 < Len(i) /\ WellFormedFrom(i, pc + 2)
    ELSE WellFormedFrom(i, pc + 1)
Reassembled == lib.kind = "disasm" /\ lib.phase = "asm"

C31_TruncatedWitness ==
    /\ Reassembled /\ lib.img = <<OpDup, OpLit>> /\ lib.res.isNil
\* a data cell is written as a .dat directive and assembles to itself
C31_DataWitness ==
    /\ Reassembled /\ lib.img = <<-1, 31>> /\ lib.res.img = lib.img


\* ---------------------------------------------------------------------
\* ClockLimiter and nextPow2.  A time.Duration and an int64 are integers of
\* DurBits bits; the unit of time is the millisecond.

DurBits == 7
MinDur == -Pow2(DurBits - 1)
MaxDur == Pow2(DurBits - 1) - 1
WrapDur(x) == ((x - MinDur) % Pow2(DurBits)) + MinDur
\* 16 * time.Millisecond
DefaultResolution == 16

\* n |= n >> k, for n >= 0; a shift by the width or more leaves n as it is
Smear(n, k) == IF k >= DurBits THEN n ELSE BitOp("or", n, n \div Pow2(k))
\* nextPow2(n): n--, the bits below the highest one are set, n + 1; the
\* shifts of a negative n set every bit
nextPow2(n) ==
    LET d == WrapDur(n - 1)
    IN IF d < 0 THEN 0
       ELSE WrapDur(Smear(Smear(Smear(Smear(Smear(Smear(d, 1), 2), 4), 8), 16), 32) + 1)

\* ClockLimiter(period, resolution): nil and 0 ticks for a period that is
\* not positive, else the ticks and the interval between two sleeps
ClockLimiter_noCorrect(per, resolution) ==
    IF per <= 0 THEN [isNil |-> TRUE, ticks |-> 0, period |-> per]
    ELSE LET r1 == IF resolution <= 0 THEN DefaultResolution ELSE resolution
             r2 == IF r1 < per THEN per ELSE r1
             t == nextPow2(r2 \div per)
             p == WrapDur(per * t)
         IN [isNil |-> FALSE, ticks |-> t, period |-> p]
ClockLimiter(per, resolution) ==
    IF per <= 0 THEN [isNil |-> TRUE, ticks |-> 0, period |-> per]
    ELSE LET r1 == IF resolution <= 0 THEN DefaultResolution ELSE resolution
             r2 == IF r1 < per THEN per ELSE r1
             t == nextPow2(r2 \div per)
             p == WrapDur(per * t)
         IN IF p > r2
            THEN [isNil |-> FALSE, ticks |-> t \div 2, period |-> p \div 2]
            ELSE [isNil |-> FALSE, ticks |-> t, period |-> p]

Durations == (-1)..MaxDur
NoLimiter == [isNil |-> TRUE, ticks |-> 0, period |-> 0]

ClockInit ==
    /\ InitInstance(New(<< >>))
    /\ \E per \in Durations, resolution \in Durations :
          lib = [kind |-> "clock", period |-> per, resolution |-> resolution,
                 called |-> FALSE, res |-> NoLimiter, tickMask |-> 0]

\* ticks, clkLimiter := ClockLimiter(period, resolution)
CallClockLimiter ==
    /\ lib.kind = "clock" /\ ~lib.called
    /\ lib' = [lib EXCEPT !.called = TRUE,
                          !.res = ClockLimiter(lib.period, lib.resolution)]
    /\ UNCHANGED instanceVars

\* Ticker(clkLimiter, ticks)
CallTicker ==
    /\ lib.kind = "clock" /\ lib.called /\ lib.tickMask = 0
    /\ lib' = [lib EXCEPT !.tickMask = IF lib.res.ticks > 0
                                       THEN WrapDur(nextPow2(lib.res.ticks) - 1)
                                       ELSE -1]
    /\ UNCHANGED instanceVars

ClockNext == CallClockLimiter \/ CallTicker
ClockSpec == ClockInit /\ [][ClockNext]_vars

Limited == lib.kind = "clock" /\ lib.called /\ lib.period > 0
IsPow2(n) == \E k \in 0..DurBits : n = Pow2(k)
\* the resolution asked for, and the one ClockLimiter works with
Chosen == IF lib.resolution <= 0 THEN DefaultResolution ELSE lib.resolution
Adjusted == IF Chosen < lib.period THEN lib.period ELSE Chosen

\* C32 (as stated): for a positive period, the ticks are a power of two, at
\* least 1, and ticks x period is no shorter than the resolution chosen
C32_Original ==
    Limited => /\ IsPow2(lib.res.ticks)
               /\ lib.res.ticks * lib.period >= Chosen
\* C32 (amended): for a positive period and a resolution of which the double
\* fits a time.Duration, the ticks are a power of two, at least 1, and
\* ticks x period is no longer than the resolution, itself raised to the
\* period when it is smaller
C32_Amended ==
    (Limited /\ 2 * Adjusted <= MaxDur)
        => /\ IsPow2(lib.res.ticks)
           /\ lib.res.ticks >= 1
           /\ lib.res.ticks * lib.period <= Adjusted
           /\ lib.res.period = lib.res.ticks * lib.period
\* period 3, resolution 10: 2 ticks, a sleep every 6
C32_Witness ==
    /\ Limited /\ lib.period = 3 /\ lib.resolution = 10
    /\ lib.res.ticks = 2 /\ lib.res.period = 6


\* ---------------------------------------------------------------------
\* The input stack and the files it owns.  PushInput is called with an
\* *os.File (wrapped in a runeReaderWrapper, which is an io.Closer) or with
\* an in-memory reader (an io.RuneReader with no Close); the port 1 handler
\* reads one rune.  ids are the sources of m.input.readers, in the same
\* order; a source is numbered by the order of the pushes.

SourceRunes == {<< >>, <<49>>}

InputInit ==
    /\ InitInstance(New(<< >>))
    /\ lib = [kind |-> "input", m |-> New(<< >>), srcs |-> << >>, ids |-> << >>,
              eof |-> {}, closed |-> {}]

\* i.PushInput(r)
CallPushInput ==
    /\ lib.kind = "input" /\ Len(lib.srcs) < MaxPushed
    /\ \E runes \in SourceRunes, file \in BOOLEAN :
          lib' = [lib EXCEPT
                    !.m = [lib.m EXCEPT !.input = PushInput(lib.m.input, runes)],
                    !.srcs = Append(lib.srcs, [runes |-> runes, file |-> file]),
                    !.ids = <<Len(lib.srcs) + 1>> \o lib.ids]
    /\ UNCHANGED instanceVars

\* wait with port 1 holding 1.  multiRuneReader.ReadRune discards the
\* readers that return EOF, after cl.Close() on those that are io.Closers;
\* a single reader is read with no multiRuneReader around it and its EOF is
\* returned as it is.
CallWaitInput ==
    /\ lib.kind = "input"
    /\ LET m0 == [lib.m EXCEPT !.ret = "", !.Ports[0] = 0, !.Ports[1] = 1]
           m1 == WaitInput(m0, 1)
           dropped == Len(m0.input.readers) - Len(m1.input.readers)
           gone == {lib.ids[k] : k \in 1..dropped}
           atEof == IF m0.input.kind = "single" /\ m1.ret = "EOF"
                    THEN {lib.ids[1]} ELSE gone
       IN lib' = [lib EXCEPT
                    !.m = m1,
                    !.ids = SubSeq(lib.ids, dropped + 1, Len(lib.ids)),
                    !.eof = lib.eof \cup atEof,
                    !.closed = lib.closed \cup {id \in gone : lib.srcs[id].file}]
    /\ UNCHANGED instanceVars

InputNext == CallPushInput \/ CallWaitInput
InputSpec == InputInit /\ [][InputNext]_vars

IsInput == lib.kind = "input"

\* C33 (as stated): a source that owns a file and has returned EOF is
\* closed, wherever it is in the stack, the only source included
C33_Original ==
    IsInput => \A id \in lib.eof : lib.srcs[id].file => id \in lib.closed
\* the only source is a file: the wait returns io.EOF and the file is
\* left open
C33_Witness ==
    /\ IsInput /\ Len(lib.srcs) = 1 /\ lib.srcs[1].file
    /\ lib.m.ret = "EOF" /\ lib.eof = {1} /\ lib.closed = {}
\* two files, one pushed on the other: both are closed at their EOF
C33_StackWitness ==
    /\ IsInput /\ Len(lib.srcs) = 2 /\ lib.srcs[1].file /\ lib.srcs[2].file
    /\ lib.m.ret = "EOF" /\ lib.closed = {1, 2}


\* the last attempted instruction was a wait in which only port 2 had a
\* request, the value 1
OutputRequest == WaitAttempted /\ prev.Ports[2] = 1 /\ OthersIdle(2)
\* one cell was popped from the stack prev held
CellPopped ==
    /\ sp = (IF prev.sp # 0 THEN prev.sp - 1 ELSE 0)
    /\ Tos = prev.data[prev.sp]
    /\ data = prev.data
\* port 2 is 0, port 0 is 1, the other ports are as they were
Acknowledged == Ports = [prev.Ports EXCEPT ![2] = 0, ![0] = 1]
\* what the terminal received during the wait
Written == SubSeq(outbuf, Len(prev.outbuf) + 1, Len(outbuf))

C34_ClearWitness ==
    /\ OutputRequest /\ err = "nil" /\ prev.output /\ prev.Tos < 0
    /\ Written = <<[k |-> "clear", a |-> 0, b |-> 0]>> /\ Ports[2] = 0
\* with no output the cell is popped and the wait acknowledged
C34_NoOutputWitness ==
    /\ OutputRequest /\ err = "nil" /\ ~prev.output /\ prev.sp = 1 /\ sp = 0
    /\ Written = << >> /\ Ports[2] = 0 /\ Ports[0] = 1
\* a write that fails ends the run with its error: the cell is popped, the
\* ports are left as they were
C34_WriteErrorWitness ==
    /\ OutputRequest /\ err = "write" /\ phase = "returned"
    /\ CellPopped /\ Ports = prev.Ports /\ PC = prev.PC
\* on an empty stack the depth stays 0
C34_EmptyWitness ==
    /\ OutputRequest /\ err = "nil" /\ prev.sp = 0 /\ sp = 0 /\ Ports[0] = 1


\* the last attempted instruction was a wait in which only port 4 had a
\* request, save image, and the image was not saved
SaveFailed ==
    /\ WaitAttempted /\ prev.Ports[4] = 1 /\ OthersIdle(4)
    /\ saves = prev.saves

\* C35 (as stated): when the save asked through port 4 fails, Run returns
\* an error
C35_Original == SaveFailed => (phase = "returned" /\ err # "nil")
\* the file cannot be written: the wait is acknowledged, port 4 is reset and
\* Run goes on with the next instruction
C35_Witness ==
    /\ SaveFailed /\ err = "nil" /\ ~prev.shrink
    /\ Ports[4] = 0 /\ Ports[0] = 1 /\ PC = prev.PC + 1


\* C36 (as stated): with no OpcodeHandler, an iteration of the loop of Run
\* on a negative cell changes PC or makes Run return
C36_Original ==
    [][StepNegative => (PC' # PC \/ phase' = "returned")]_vars
\* the loop has run MaxIns times on the same negative cell, which is all it
\* has executed, and is about to run on it again
C36_Witness ==
    /\ phase = "running" /\ opts.opH = "none"
    /\ InImage(Cur, PC) /\ Op < 0
    /\ PC = prev.PC /\ insCount = MaxIns /\ PC = 0 /\ err = "nil"


\* the last attempted instruction was a return taken with nothing on the
\* address stack: `;`, or `0;` with 0 on top of the data stack
EmptyReturn ==
    /\ Attempted /\ prev.rsp = 0
    /\ \/ PrevOp = OpReturn
       \/ PrevOp = OpZeroExit /\ prev.Tos = 0

\* C37: `;`, or `0;` with TOS 0, on an empty address stack is no error: the
\* value popped is 0, PC becomes 1 and the depth of the address stack
\* stays 0
C37_EmptyReturn ==
    EmptyReturn =>
        /\ err = "nil"
        /\ prev.rtos = 0 /\ PC = 1
        /\ rsp = 0 /\ rtos = 0 /\ address = prev.address
\* `;` as the first instruction of a two cells image: the run goes on at 1
C37_Witness ==
    /\ EmptyReturn /\ PrevOp = OpReturn /\ prev.PC = 0 /\ Len(Image) = 2
    /\ PC = 1 /\ rsp = 0 /\ err = "nil" /\ phase = "running"
\* `0;` with 0 on an empty data stack
C37_ZeroExitWitness ==
    /\ EmptyReturn /\ PrevOp = OpZeroExit /\ prev.sp = 0
    /\ PC = 1 /\ rsp = 0 /\ sp = 0 /\ err = "nil"


\* what a wait leaves behind: the ports, the two stacks, PC and the output
Outcome(m) ==
    [Ports |-> m.Ports, Tos |-> m.Tos, sp |-> m.sp, data |-> m.data,
     rtos |-> m.rtos, rsp |-> m.rsp, address |-> m.address, PC |-> m.PC,
     outbuf |-> m.outbuf]
\* the loop is about to execute a wait with two ports or more to serve
WaitWithSeveral ==
    /\ Fetched({OpWait}) /\ Ports[0] # 1
    /\ Cardinality({p \in waitH : Ports[p] # 0}) >= 2

\* C38 (as stated): when two or more ports of the default handler are
\* nonzero at a wait, the ports, stacks, PC and output that result are the
\* same in whichever order range visits the handlers
C38_Original ==
    WaitWithSeveral =>
        \A env \in Envs : \A o1 \in Orders(Cur), o2 \in Orders(Cur) :
            Outcome(Exec(Cur, Op, o1, env)) = Outcome(Exec(Cur, Op, o2, env))
\* a wait has served port 2 and port 8, and the terminal has not received
\* what it would have, had the two handlers been called the other way round
C38_Witness ==
    /\ WaitAttempted /\ err = "nil" /\ Len(wlog) = 2
    /\ {wlog[1].port, wlog[2].port} = {2, 8}
    /\ \A env \in Envs :
          LET other == Exec(prev, OpWait, <<wlog[2].port, wlog[1].port>>, env)
          IN other.outbuf # outbuf /\ other.Tos = Tos /\ other.sp = sp
\* port 1 with no input and port 2: Run returns io.EOF in both orders, the
\* cell for port 2 popped or not
C38_ErrorWitness ==
    /\ WaitAttempted /\ err = "EOF" /\ Len(wlog) = 1 /\ wlog[1].port = 1
    /\ prev.Ports[2] = 1 /\ prev.sp > 0 /\ sp = prev.sp
    /\ \A env \in Envs : Exec(prev, OpWait, <<2, 1>>, env).sp = prev.sp - 1


\* the address stack, and the data stack, of st: capacity, contents, depth
AddressPart(st) == [address |-> st.address, rsp |-> st.rsp, rtos |-> st.rtos]
DataPart(st) == [data |-> st.data, sp |-> st.sp, tos |-> st.tos]

\* AddressSize of part_007 leaves the data stack as it was
AddressSizeFrame ==
    OptionCalled("AddressSize") => DataPart(lib.st) = DataPart(lib.before)
\* C39 (as stated): DataSize leaves capacity, contents and depth of the
\* address stack unchanged, and AddressSize those of the data stack
C39_Original ==
    /\ OptionCalled("DataSize") => AddressPart(lib.st) = AddressPart(lib.before)
    /\ AddressSizeFrame
    /\ OptionCalled("AddressSize (vm.go)") => DataPart(lib.st) = DataPart(lib.before)
\* DataSize to a larger capacity with three items on each stack: the
\* address stack keeps its capacity and depth and loses the item 21
C39_Witness ==
    /\ OptionCalled("DataSize") /\ lib.st.err = "nil" /\ lib.calls = 1
    /\ lib.before.sp = 3 /\ lib.before.rsp = 3
    /\ Len(lib.st.data) > Len(lib.before.data)
    /\ Len(lib.st.address) = Len(lib.before.address) /\ lib.st.rsp = 3
    /\ AddressItems(lib.before) = <<21, 22, 23>>
    /\ AddressItems(lib.st) = <<0, 22, 23>>
\* DataSize to a smaller capacity leaves the address stack as it was
C39_ShrinkWitness ==
    /\ OptionCalled("DataSize") /\ lib.st.err = "nil" /\ lib.calls = 1
    /\ Len(lib.st.data) < Len(lib.before.data) /\ lib.before.rsp = 3
    /\ AddressPart(lib.st) = AddressPart(lib.before)
\* AddressSize of vm.go to a smaller capacity: the address stack is as it
\* was and the data stack is now made of its first cells
C39_AliasWitness ==
    /\ OptionCalled("AddressSize (vm.go)") /\ lib.size = 3
    /\ lib.before.sp = 3 /\ lib.before.rsp = 3
    /\ AddressPart(lib.st) = AddressPart(lib.before)
    /\ lib.st.data = SubSeq(lib.before.address, 1, 3)
    /\ Len(lib.before.data) = dataLen /\ lib.st.data # lib.before.data


\* the last attempted instruction was a wait in which only port p had a
\* request, the value v, and the data stack held fewer than n items
ShortOf(p, v, n) ==
    /\ WaitAttempted /\ prev.Ports[p] = v /\ OthersIdle(p)
    /\ prev.sp >= 0 /\ prev.sp < n
TermRequest(v, n) == ShortOf(8, v, n) /\ prev.output

\* C40 (as stated): the handlers of port 8 (move cursor, colours) and of
\* selector -10 of port 5, run on a data stack that holds fewer items than
\* they take, raise no error and leave the depth at 0
C40_Original ==
    (ShortOf(5, -10, 2) \/ TermRequest(1, 2) \/ TermRequest(2, 1) \/ TermRequest(3, 1))
        => (err = "nil" /\ sp = 0)
\* selector -10 with one item: no error, and the depth is -1
C40_Witness ==
    /\ ShortOf(5, -10, 2) /\ prev.sp = 1 /\ err = "nil" /\ sp = -1
    /\ Ports[5] = 0 /\ Ports[0] = 1 /\ PC = prev.PC + 1
\* selector -10 on an empty stack: index out of range
C40_EmptyWitness ==
    /\ ShortOf(5, -10, 2) /\ prev.sp = 0 /\ phase = "returned" /\ err = "index"
\* move cursor with one item: the depth is -1
C40_CursorWitness ==
    /\ TermRequest(1, 2) /\ prev.sp = 1 /\ err = "nil" /\ sp = -1 /\ Ports[8] = 0
\* the colour commands use Pop: the depth stays 0
C40_ColourWitness ==
    /\ TermRequest(2, 1) /\ prev.sp = 0 /\ err = "nil" /\ sp = 0 /\ Ports[8] = 0

====
